---- MODULE Spec2Model ----
(***************************************************************************)
(* A model of the ninja-rs front end: the intern table (intern.rs), the    *)
(* arena (arena.rs), the byte-oriented lexer (lex.rs), the scope model     *)
(* (ast.rs) and the recursive-descent parser (parse.rs).                   *)
(*                                                                         *)
(* A byte is a one-character string; a byte sequence (View, Blob) is a     *)
(* sequence of bytes.  Rust's 0-based offsets are kept: the byte at offset *)
(* e is input[e + 1].  Option<T> is a sequence of length 0 (None) or 1     *)
(* (Some).  usize values that come out of the decimal parse are kept as    *)
(* decimal numerals (sequences of digits, no leading zero) so that the     *)
(* 64-bit range is exact.                                                  *)
(***************************************************************************)
EXTENDS Integers, Sequences, FiniteSets, TLC

VARIABLES
    input,          \* Lexer.input: the borrowed source buffer
    current,        \* Lexer.current: [start, end], the half-open current span
    line,           \* Lexer.line
    table,          \* intern::Table: [hash, ids]
    scopes,         \* ast::Scopes: [arena, top]
    declarations,   \* ast::Declarations.declarations
    pc,             \* the parser's position in parse.rs
    frame,          \* the locals of the parse_* function in progress
    result,         \* what Parser::parse returned, once it has
    calls           \* the (bytes, Symbol) pairs of the Table::insert calls made directly

vars == <<input, current, line, table, scopes, declarations, pc, frame, result, calls>>

----------------------------------------------------------------------------
(* Option<T> *)

None == <<>>
Some(x) == <<x>>
IsSome(o) == Len(o) = 1
Unwrap(o) == o[1]

----------------------------------------------------------------------------
(* Bytes *)

Lower == {"a","b","c","d","e","f","g","h","i","j","k","l","m",
          "n","o","p","q","r","s","t","u","v","w","x","y","z"}
Upper == {"A","B","C","D","E","F","G","H","I","J","K","L","M",
          "N","O","P","Q","R","S","T","U","V","W","X","Y","Z"}
Digit == {"0","1","2","3","4","5","6","7","8","9"}

\* What peek() gives at the end of the input (Option<u8>::None).
NoByte == "<eof>"

is_bare_identifier(b) == b \in Lower \cup Upper \cup Digit \cup {"_", "-"}

\* is_identifier taking `$` as well
is_identifier_dollar(b) == b \in Lower \cup Upper \cup Digit \cup {"_", "-", ".", "$"}

is_identifier(b) == b \in Lower \cup Upper \cup Digit \cup {"_", "-", "."}

----------------------------------------------------------------------------
(* intern.rs *)

Table_new == [hash |-> <<>>, ids |-> <<>>]

\* Table::insert that maps new content to its Symbol without storing the content
Table_insert_unlisted(T, bytes) ==
    IF bytes \in DOMAIN T.hash
    THEN [sym |-> T.hash[bytes], tab |-> T]
    ELSE [sym |-> Len(T.ids),
          tab |-> [hash |-> [b \in DOMAIN T.hash \cup {bytes} |->
                                IF b = bytes THEN Len(T.ids) ELSE T.hash[b]],
                   ids |-> T.ids]]

\* Table::insert without the lookup: every call allocates
Table_insert_always(T, bytes) ==
    [sym |-> Len(T.ids),
     tab |-> [hash |-> [b \in DOMAIN T.hash \cup {bytes} |->
                           IF b = bytes THEN Len(T.ids) ELSE T.hash[b]],
              ids |-> Append(T.ids, bytes)]]

\* Table::insert numbering from the length after the push
Table_insert_after(T, bytes) ==
    IF bytes \in DOMAIN T.hash
    THEN [sym |-> T.hash[bytes], tab |-> T]
    ELSE [sym |-> Len(T.ids) + 1,
          tab |-> [hash |-> [b \in DOMAIN T.hash \cup {bytes} |->
                                IF b = bytes THEN Len(T.ids) + 1 ELSE T.hash[b]],
                   ids |-> Append(T.ids, bytes)]]

\* Table::insert: the Symbol returned and the table afterwards.  hash is a
\* function from byte sequences to Symbols; Symbol(n) is ids[n + 1].
Table_insert(T, bytes) ==
    IF bytes \in DOMAIN T.hash
    THEN [sym |-> T.hash[bytes], tab |-> T]
    ELSE [sym |-> Len(T.ids),
          tab |-> [hash |-> [b \in DOMAIN T.hash \cup {bytes} |->
                                IF b = bytes THEN Len(T.ids) ELSE T.hash[b]],
                   ids |-> Append(T.ids, bytes)]]

\* lex::Identifier::new
Identifier_new(T, name) == Table_insert(T, name)

----------------------------------------------------------------------------
(* lex.rs: the cursor.  A lexer state S is [start, end, line].             *)

Lexer_new == [start |-> 0, end |-> 0, line |-> 1]

peek(e) == IF e < Len(input) THEN input[e + 1] ELSE NoByte

advance(S) == [S EXCEPT !.end = S.end + 1]

start_next_token(S) == [S EXCEPT !.start = S.end]

lexeme(tok) == SubSeq(input, tok.range[1] + 1, tok.range[2])

try_indent(S) == peek(S.end) = " "

\* Lexer::token that leaves the line counter as it is
token_line_kept(S, kind) ==
    [t   |-> "Token",
     tok |-> [kind |-> kind, range |-> <<S.start, S.end>>, line |-> S.line],
     lx  |-> [start |-> S.end, end |-> S.end, line |-> S.line]]

\* Lexer::token: the token of the current span; a Newline token reports the
\* line it ends and increments the counter.
token(S, kind) ==
    [t   |-> "Token",
     tok |-> [kind |-> kind, range |-> <<S.start, S.end>>, line |-> S.line],
     lx  |-> [start |-> S.end, end |-> S.end,
              line |-> IF kind = "Newline" THEN S.line + 1 ELSE S.line]]

LexErr(S, e) == [t |-> "Err", error |-> e, lx |-> S]

\* skip_whitespace that knows no `\r\n` after the `$`
RECURSIVE skip_end_lf(_)
skip_end_lf(e) ==
    IF peek(e) = " " THEN skip_end_lf(e + 1)
    ELSE IF peek(e) = "$" THEN
        IF peek(e + 1) = "\n" THEN skip_end_lf(e + 2)
        ELSE IF peek(e + 1) = " " THEN skip_end_lf(e + 2)
        ELSE e
    ELSE e

\* The end offset skip_whitespace stops at, from end offset e.
RECURSIVE skip_end(_)
skip_end(e) ==
    IF peek(e) = " " THEN skip_end(e + 1)
    ELSE IF peek(e) = "$" THEN
        IF peek(e + 1) = "\n" THEN skip_end(e + 2)
        ELSE IF peek(e + 1) = " " THEN skip_end(e + 2)
        ELSE IF peek(e + 1) = "\r" THEN
            IF peek(e + 2) = "\n" THEN skip_end(e + 3) ELSE e
        ELSE e
    ELSE e

\* Lexer::skip_whitespace without its start_next_token
skip_whitespace_no_mark(S) == [S EXCEPT !.end = skip_end(S.end)]

\* Lexer::skip_whitespace (always Ok)
skip_whitespace(S) == [S EXCEPT !.start = skip_end(S.end), !.end = skip_end(S.end)]

\* the end of the maximal run of bytes satisfying is_identifier / is_bare_identifier
RECURSIVE identifier_end(_)
identifier_end(e) == IF is_identifier(peek(e)) THEN identifier_end(e + 1) ELSE e

\* the end of a bare name that takes `.` as well
RECURSIVE bare_identifier_end_dot(_)
bare_identifier_end_dot(e) ==
    IF is_identifier(peek(e)) THEN bare_identifier_end_dot(e + 1) ELSE e

RECURSIVE bare_identifier_end(_)
bare_identifier_end(e) ==
    IF is_bare_identifier(peek(e)) THEN bare_identifier_end(e + 1) ELSE e

RECURSIVE space_end(_)
space_end(e) == IF peek(e) = " " THEN space_end(e + 1) ELSE e

\* the comment loop of lex_one: the offset of the newline that ends the
\* comment, or Len(input) when the input ends first
RECURSIVE comment_end(_)
comment_end(e) ==
    IF peek(e) = "\n" \/ peek(e) = NoByte THEN e ELSE comment_end(e + 1)

\* Lexer::lex_one
lex_one(S) ==
    LET b == peek(S.end) IN
    IF b = NoByte THEN [t |-> "Eof", lx |-> S]
    ELSE IF b = "=" THEN token(advance(S), "Equal")
    ELSE IF b = ":" THEN token(advance(S), "Colon")
    ELSE IF b = "|" THEN
        IF peek(S.end + 1) = "|"
        THEN token(advance(advance(S)), "PipePipe")
        ELSE token(advance(S), "Pipe")
    ELSE IF is_identifier(b) THEN
        token([S EXCEPT !.end = identifier_end(S.end + 1)], "Identifier")
    ELSE IF b = " " THEN
        token([S EXCEPT !.end = space_end(S.end + 1)], "Indent")
    ELSE IF b = "\r" THEN
        IF peek(S.end + 1) = "\n"
        THEN token(advance(advance(S)), "Newline")
        ELSE LexErr(advance(S), "UnknownToken")
    ELSE IF b = "\n" THEN token(advance(S), "Newline")
    ELSE IF b = "#" THEN
        LET e == comment_end(S.end + 1) IN
        IF peek(e) = "\n"
        THEN [t  |-> "Comment",
              lx |-> [start |-> e + 1, end |-> e + 1, line |-> S.line + 1]]
        ELSE LexErr([S EXCEPT !.end = e], "UnknownToken")
    ELSE LexErr(S, "UnknownToken")

\* Lexer::lex: Ok(Some(token)) is t = "Token", Ok(None) is t = "Eof"
RECURSIVE lex(_)
lex(S) ==
    LET Lexed(r) ==
            IF r.t = "Token" THEN
                IF r.tok.kind # "Newline"
                THEN [r EXCEPT !.lx = skip_whitespace(r.lx)]
                ELSE r
            ELSE IF r.t = "Comment" THEN lex(r.lx)
            ELSE r
    IN  Lexed(lex_one(S))

W_default == <<"d","e","f","a","u","l","t">>
W_rule == <<"r","u","l","e">>
W_build == <<"b","u","i","l","d">>
W_pool == <<"p","o","o","l">>
W_include == <<"i","n","c","l","u","d","e">>
W_subninja == <<"s","u","b","n","i","n","j","a">>

\* Lexer::keyword taking a lexeme that starts with a keyword for the keyword
keyword_prefix(tok) ==
    LET l == lexeme(tok)
        Starts(w) == Len(l) >= Len(w) /\ SubSeq(l, 1, Len(w)) = w
    IN  IF Starts(W_default) THEN "Default"
        ELSE IF Starts(W_rule) THEN "Rule"
        ELSE IF Starts(W_build) THEN "Build"
        ELSE IF Starts(W_pool) THEN "Pool"
        ELSE IF Starts(W_include) THEN "Include"
        ELSE IF Starts(W_subninja) THEN "Subninja"
        ELSE "Identifier"

\* Lexer::keyword
keyword(tok) ==
    LET l == lexeme(tok) IN
    IF l = W_default THEN "Default"
    ELSE IF l = W_rule THEN "Rule"
    ELSE IF l = W_build THEN "Build"
    ELSE IF l = W_pool THEN "Pool"
    ELSE IF l = W_include THEN "Include"
    ELSE IF l = W_subninja THEN "Subninja"
    ELSE "Identifier"

\* Lexer::decl: Option<Token<DeclKind>>
decl(tok) ==
    IF tok.kind = "Newline" THEN Some([tok EXCEPT !.kind = "Newline"])
    ELSE IF tok.kind = "Identifier" THEN Some([tok EXCEPT !.kind = keyword(tok)])
    ELSE None

\* Lexer::lex_decl
lex_decl(S) ==
    LET Lexed(r) ==
            IF r.t = "Token" THEN
                IF IsSome(decl(r.tok))
                THEN [r EXCEPT !.tok = Unwrap(decl(r.tok))]
                ELSE LexErr(r.lx, "InvalidDeclStart")
            ELSE r
    IN  Lexed(lex(S))

----------------------------------------------------------------------------
(* lex.rs: value and target scanning.  A ValuePart is                      *)
(* [kind |-> "Text", text |-> bytes] or [kind |-> "Variable", id |-> sym]. *)

Text(bytes) == [kind |-> "Text", text |-> bytes]
Variable(sym) == [kind |-> "Variable", id |-> sym]

\* Err(LexError::UnknownToken) out of lex_dollar
DollarErr(S, T) == [ok |-> FALSE, lx |-> S, tab |-> T]

\* Ok(ValuePart::Variable(..)) out of lex_dollar: i is what Identifier::new
\* gave, S the lexer afterwards
VariablePart(i, S) == [ok |-> TRUE, part |-> Variable(i.sym), lx |-> S, tab |-> i.tab]

\* Lexer::lex_dollar, entered with the `$` consumed
lex_dollar(S, T) ==
    LET b == peek(S.end) IN
    IF b = NoByte THEN DollarErr(S, T)
    ELSE IF b \in {" ", ":", "$"} THEN
        [ok |-> TRUE, part |-> Text(<<b>>), lx |-> advance(S), tab |-> T]
    ELSE IF b = "\n" THEN
        [ok |-> TRUE, part |-> Text(<<>>), lx |-> skip_whitespace(advance(S)), tab |-> T]
    ELSE IF b = "\r" THEN
        IF peek(S.end + 1) = "\n"
        THEN [ok |-> TRUE, part |-> Text(<<>>),
              lx |-> skip_whitespace(advance(advance(S))), tab |-> T]
        ELSE DollarErr(advance(S), T)
    ELSE IF b = "{" THEN
        LET Braced(e) ==
                IF peek(e) = "}"
                THEN VariablePart(Identifier_new(T, SubSeq(input, S.end + 2, e)),
                                  [S EXCEPT !.end = e + 1])
                ELSE DollarErr([S EXCEPT !.end = e], T)
        IN  Braced(identifier_end(S.end + 1))
    ELSE IF is_bare_identifier(b) THEN
        LET Bare(e) ==
                VariablePart(Identifier_new(T, SubSeq(input, S.end + 1, e)),
                             [S EXCEPT !.end = e])
        IN  Bare(bare_identifier_end(S.end + 1))
    ELSE DollarErr(S, T)

\* The scanning loop shared in shape by lex_value and lex_target; stops is
\* the set of unescaped bytes the loop breaks on.
RECURSIVE scan_parts(_, _, _, _)
scan_parts(S, T, parts, stops) ==
    LET b == peek(S.end) IN
    IF b = NoByte THEN [ok |-> FALSE, error |-> "UnknownToken", lx |-> S, tab |-> T]
    ELSE IF b \in stops THEN [ok |-> TRUE, parts |-> parts, lx |-> S, tab |-> T]
    ELSE IF b = "$" THEN
        LET Escaped(d) ==
                IF d.ok
                THEN scan_parts(d.lx, d.tab, Append(parts, d.part), stops)
                ELSE [ok |-> FALSE, error |-> "UnknownToken", lx |-> d.lx, tab |-> d.tab]
        IN  Escaped(lex_dollar(advance(S), T))
    ELSE scan_parts(advance(S), T, Append(parts, Text(<<b>>)), stops)

\* Value::new refusing a value without parts
Value_new_nonempty(parts) == IF parts = <<>> THEN None ELSE Some([parts |-> parts])

\* lex::Value::new
Value_new(parts) == Some([parts |-> parts])

\* lex_value that takes the newline it stops at
lex_value_newline(S, T) ==
    LET Scanned(r) ==
            IF r.ok
            THEN [ok |-> TRUE, value |-> Value_new(r.parts),
                  lx |-> start_next_token(advance(r.lx)), tab |-> r.tab]
            ELSE r
    IN  Scanned(scan_parts(S, T, <<>>, {"\n"}))

\* Lexer::lex_value: Result<Option<Value>, LexError>
lex_value(S, T) ==
    LET Scanned(r) ==
            IF r.ok
            THEN [ok |-> TRUE, value |-> Value_new(r.parts),
                  lx |-> start_next_token(r.lx), tab |-> r.tab]
            ELSE r
    IN  Scanned(scan_parts(S, T, <<>>, {"\n"}))

\* lex_target that returns a target without parts where it should return none
lex_target_some(S, T) ==
    LET Scanned(r) ==
            IF r.ok
            THEN [ok |-> TRUE, value |-> Value_new(r.parts),
                  lx |-> start_next_token(skip_whitespace(r.lx)), tab |-> r.tab]
            ELSE r
    IN  Scanned(scan_parts(S, T, <<>>, {"|", ":", " ", "\n"}))

\* Lexer::lex_target: Result<Option<Value>, LexError>
lex_target(S, T) ==
    LET Scanned(r) ==
            IF r.ok
            THEN [ok |-> TRUE,
                  value |-> IF r.parts = <<>> THEN None ELSE Value_new(r.parts),
                  lx |-> start_next_token(skip_whitespace(r.lx)), tab |-> r.tab]
            ELSE r
    IN  Scanned(scan_parts(S, T, <<>>, {"|", ":", " ", "\n"}))

----------------------------------------------------------------------------
(* arena.rs *)

Arena_new == [items |-> <<>>]

\* Arena::insert that puts the value in front of the stored ones
Arena_insert_front(A, t) == [id |-> Len(A.items), arena |-> [items |-> <<t>> \o A.items]]

\* Arena::insert: the Id returned and the arena afterwards
Arena_insert(A, t) == [id |-> Len(A.items), arena |-> [items |-> Append(A.items, t)]]

\* Arena::get (indexing out of range is a panic; no caller does it)
Arena_get(A, id) == A.items[id + 1]

----------------------------------------------------------------------------
(* ast.rs.  A Binding is [id, value]; a Scope is [bindings, parent] with    *)
(* bindings a function from Identifiers to Blobs (the HashMap).            *)

Binding_new(id, value) == [id |-> id, value |-> value]

ast_Value_new(value) == [value |-> value]

Target_new(value) == [value |-> value]

Scope_empty(parent) == [bindings |-> <<>>, parent |-> parent]

\* Scope::push that never reports a duplicate
Scope_push_silent(scope, binding) ==
    [ok    |-> TRUE,
     scope |-> [bindings |-> [x \in DOMAIN scope.bindings \cup {binding.id} |->
                                 IF x = binding.id THEN binding.value
                                 ELSE scope.bindings[x]],
                parent |-> scope.parent]]

\* Scope::push: HashMap::insert stores the new value whether or not the key
\* was present; the push is an error when it was.
Scope_push(scope, binding) ==
    [ok    |-> binding.id \notin DOMAIN scope.bindings,
     scope |-> [bindings |-> [x \in DOMAIN scope.bindings \cup {binding.id} |->
                                 IF x = binding.id THEN binding.value
                                 ELSE scope.bindings[x]],
                parent |-> scope.parent]]

\* the loop of Scope::new, from binding number i on
RECURSIVE Scope_new_from(_, _, _)
Scope_new_from(scope, new_bindings, i) ==
    IF i > Len(new_bindings) THEN [ok |-> TRUE, scope |-> scope]
    ELSE LET Pushed(p) ==
                 IF p.ok THEN Scope_new_from(p.scope, new_bindings, i + 1)
                 ELSE [ok |-> FALSE, scope |-> p.scope]
         IN  Pushed(Scope_push(scope, new_bindings[i]))

\* Scope::new: Result<Scope, AstError>
Scope_new(new_bindings, parent) == Scope_new_from(Scope_empty(parent), new_bindings, 1)

\* Scope::get: Option<&View>
Scope_get(scope, identifier) ==
    IF identifier \in DOMAIN scope.bindings
    THEN Some(scope.bindings[identifier])
    ELSE None

Scope_size(scope) == Cardinality(DOMAIN scope.bindings)

\* Scope::evaluate putting each part in front of what it has built
RECURSIVE Scope_evaluate_reversed(_, _, _)
Scope_evaluate_reversed(scope, parts, i) ==
    IF i > Len(parts) THEN <<>>
    ELSE Scope_evaluate_reversed(scope, parts, i + 1)
         \o (IF parts[i].kind = "Text" THEN parts[i].text
             ELSE IF IsSome(Scope_get(scope, parts[i].id))
                  THEN Unwrap(Scope_get(scope, parts[i].id))
                  ELSE <<>>)

\* Scope::evaluate leaving the `$` of an unbound variable in the value
RECURSIVE Scope_evaluate_unbound(_, _, _)
Scope_evaluate_unbound(scope, parts, i) ==
    IF i > Len(parts) THEN <<>>
    ELSE (IF parts[i].kind = "Text" THEN parts[i].text
          ELSE IF IsSome(Scope_get(scope, parts[i].id))
               THEN Unwrap(Scope_get(scope, parts[i].id))
               ELSE <<"$">>)
         \o Scope_evaluate_unbound(scope, parts, i + 1)

\* Scope::evaluate, from part number i on
RECURSIVE Scope_evaluate_from(_, _, _)
Scope_evaluate_from(scope, parts, i) ==
    IF i > Len(parts) THEN <<>>
    ELSE (IF parts[i].kind = "Text" THEN parts[i].text
          ELSE IF IsSome(Scope_get(scope, parts[i].id))
               THEN Unwrap(Scope_get(scope, parts[i].id))
               ELSE <<>>)
         \o Scope_evaluate_from(scope, parts, i + 1)

\* Scope::evaluate
Scope_evaluate(scope, value) == Scope_evaluate_from(scope, value.value.parts, 1)

\* Scopes::new
Scopes_new ==
    LET a == Arena_insert(Arena_new, Scope_empty(None)) IN
    [arena |-> a.arena, top |-> a.id]

\* Scopes::new_scope whose scope reads a copy of the top scope made at the
\* declaration instead of the top scope itself
Scopes_new_scope_snapshot(SS, bindings) ==
    LET Inserted(a) ==
            [ok |-> TRUE, id |-> a.id, scopes |-> [arena |-> a.arena, top |-> SS.top]]
        Copied(c) ==
            LET Made(s) ==
                    IF s.ok
                    THEN Inserted(Arena_insert(c.arena, s.scope))
                    ELSE [ok |-> FALSE, error |-> "DuplicateBinding", scopes |-> SS]
            IN  Made(Scope_new(bindings, Some(c.id)))
    IN  Copied(Arena_insert(SS.arena, Arena_get(SS.arena, SS.top)))

\* Scopes::new_scope with the scope created last as the parent
Scopes_new_scope_nested(SS, bindings) ==
    LET Inserted(a) ==
            [ok |-> TRUE, id |-> a.id, scopes |-> [arena |-> a.arena, top |-> SS.top]]
        Made(s) ==
            IF s.ok
            THEN Inserted(Arena_insert(SS.arena, s.scope))
            ELSE [ok |-> FALSE, error |-> "DuplicateBinding", scopes |-> SS]
    IN  Made(Scope_new(bindings, Some(Len(SS.arena.items) - 1)))

\* Scopes::new_scope: Result<Id<Scope>, AstError>
Scopes_new_scope(SS, bindings) ==
    LET Inserted(a) ==
            [ok |-> TRUE, id |-> a.id, scopes |-> [arena |-> a.arena, top |-> SS.top]]
        Made(s) ==
            IF s.ok
            THEN Inserted(Arena_insert(SS.arena, s.scope))
            ELSE [ok |-> FALSE, error |-> "DuplicateBinding", scopes |-> SS]
    IN  Made(Scope_new(bindings, Some(SS.top)))

\* Scopes::get_scope
Scopes_get_scope(SS, id) == Arena_get(SS.arena, id)

\* Scopes::get that does not follow the parent
Scopes_get_unchained(SS, id, identifier) ==
    Scope_get(Scopes_get_scope(SS, id), identifier)

\* Scopes::get: the chained lookup
RECURSIVE Scopes_get(_, _, _)
Scopes_get(SS, id, identifier) ==
    LET scope == Scopes_get_scope(SS, id) IN
    IF IsSome(Scope_get(scope, identifier)) THEN Scope_get(scope, identifier)
    ELSE IF IsSome(scope.parent) THEN Scopes_get(SS, Unwrap(scope.parent), identifier)
    ELSE None

----------------------------------------------------------------------------
(* parse.rs: the decimal parse of the pool depth.  `depth.parse()` is       *)
(* usize::from_str: an optional leading `+`, then one or more decimal      *)
(* digits, the value accumulated with checked arithmetic (64-bit usize).   *)
(* A usize is kept as its decimal numeral.                                 *)

USIZE_MAX == <<"1","8","4","4","6","7","4","4","0","7",
               "3","7","0","9","5","5","1","6","1","5">>

Zero == <<"0">>

DigitVal(c) ==
    CASE c = "0" -> 0 [] c = "1" -> 1 [] c = "2" -> 2 [] c = "3" -> 3
      [] c = "4" -> 4 [] c = "5" -> 5 [] c = "6" -> 6 [] c = "7" -> 7
      [] c = "8" -> 8 [] c = "9" -> 9

\* m > n for numerals of the same length, comparing from digit i on
RECURSIVE NumeralGtFrom(_, _, _)
NumeralGtFrom(m, n, i) ==
    IF i > Len(m) THEN FALSE
    ELSE IF DigitVal(m[i]) # DigitVal(n[i]) THEN DigitVal(m[i]) > DigitVal(n[i])
    ELSE NumeralGtFrom(m, n, i + 1)

\* m > n for numerals without leading zeros
NumeralGt(m, n) ==
    IF Len(m) # Len(n) THEN Len(m) > Len(n) ELSE NumeralGtFrom(m, n, 1)

\* acc * 10 + d as a numeral
MulAdd(acc, d) == IF acc = Zero THEN <<d>> ELSE Append(acc, d)

\* the digit loop of from_str: checked_mul(10) then checked_add(digit)
RECURSIVE usize_digits(_, _, _)
usize_digits(src, i, acc) ==
    IF i > Len(src) THEN [ok |-> TRUE, value |-> acc]
    ELSE IF src[i] \notin Digit THEN [ok |-> FALSE, error |-> "InvalidDigit"]
    ELSE IF NumeralGt(MulAdd(acc, src[i]), USIZE_MAX)
         THEN [ok |-> FALSE, error |-> "PosOverflow"]
    ELSE usize_digits(src, i + 1, MulAdd(acc, src[i]))

\* a parse that takes a leading `-` as a sign too
usize_from_str_signed(src) ==
    IF src = <<>> THEN [ok |-> FALSE, error |-> "Empty"]
    ELSE IF src = <<"+">> \/ src = <<"-">> THEN [ok |-> FALSE, error |-> "InvalidDigit"]
    ELSE IF src[1] \in {"+", "-"} THEN usize_digits(src, 2, Zero)
    ELSE usize_digits(src, 1, Zero)

\* <usize as FromStr>::from_str
usize_from_str(src) ==
    IF src = <<>> THEN [ok |-> FALSE, error |-> "Empty"]
    ELSE IF src = <<"+">> \/ src = <<"-">> THEN [ok |-> FALSE, error |-> "InvalidDigit"]
    ELSE IF src[1] = "+" THEN usize_digits(src, 2, Zero)
    ELSE usize_digits(src, 1, Zero)

\* The byte 0xFF, which no UTF-8 text holds; every other byte of the model
\* is ASCII.
Byte_FF == "<0xFF>"

\* String::from_utf8(..).is_ok()
from_utf8_ok(bytes) == \A i \in DOMAIN bytes : bytes[i] # Byte_FF

W_depth == <<"d","e","p","t","h">>

\* parse_pool without the `depth == b""` case
pool_depth_no_empty(SS, scope_id, T) ==
    LET Parsed(n, tab) ==
            IF n.ok
            THEN [ok |-> TRUE, depth |-> n.value, tab |-> tab]
            ELSE [ok |-> FALSE, error |-> "PoolDepthInvalid", tab |-> tab]
        Found(v, tab) ==
            IF ~IsSome(v)
            THEN [ok |-> FALSE, error |-> "PoolDepthInvalid", tab |-> tab]
            ELSE IF ~from_utf8_ok(Unwrap(v))
            THEN [ok |-> FALSE, error |-> "PoolDepthInvalid", tab |-> tab]
            ELSE Parsed(usize_from_str(Unwrap(v)), tab)
        Sized(scope, d) ==
            IF Scope_size(scope) # 1
            THEN [ok |-> FALSE, error |-> "PoolDepthInvalid", tab |-> T]
            ELSE Found(Scope_get(scope, d.sym), d.tab)
    IN  Sized(Scopes_get_scope(SS, scope_id), Identifier_new(T, W_depth))

\* The tail of parse_pool, after parse_scope returned scope_id:
\* Result<usize, ParseError> and the intern table afterwards.
pool_depth(SS, scope_id, T) ==
    LET Parsed(n, tab) ==
            IF n.ok
            THEN [ok |-> TRUE, depth |-> n.value, tab |-> tab]
            ELSE [ok |-> FALSE, error |-> "PoolDepthInvalid", tab |-> tab]
        Found(v, tab) ==
            IF ~IsSome(v)
            THEN [ok |-> FALSE, error |-> "PoolDepthInvalid", tab |-> tab]
            ELSE IF Unwrap(v) = <<>>
            THEN [ok |-> TRUE, depth |-> Zero, tab |-> tab]
            ELSE IF ~from_utf8_ok(Unwrap(v))
            THEN [ok |-> FALSE, error |-> "PoolDepthInvalid", tab |-> tab]
            ELSE Parsed(usize_from_str(Unwrap(v)), tab)
        Sized(scope, d) ==
            IF Scope_size(scope) # 1
            THEN [ok |-> FALSE, error |-> "PoolDepthInvalid", tab |-> T]
            ELSE Found(Scope_get(scope, d.sym), d.tab)
    IN  Sized(Scopes_get_scope(SS, scope_id), Identifier_new(T, W_depth))

----------------------------------------------------------------------------
(* parse.rs: errors and the helpers that wrap the lexer                    *)

PE_LexError(e) == [variant |-> "LexError", inner |-> e]
PE_AstError(e) == [variant |-> "AstError", inner |-> e]
PE_MissingNewline == [variant |-> "MissingNewline"]
PE_UnexpectedToken(got) == [variant |-> "UnexpectedToken", got |-> got]
PE_Expected(expected, got) == [variant |-> "Expected", expected |-> expected, got |-> got]
PE_UnexpectedEof == [variant |-> "UnexpectedEof"]
PE_InvalidValue == [variant |-> "InvalidValue"]
PE_PoolDepthInvalid == [variant |-> "PoolDepthInvalid"]

Running == [status |-> "Running"]
Ok == [status |-> "Ok"]
Err(e) == [status |-> "Err", error |-> e]
\* todo!() unwinds out of parse: the call never returns
Panic == [status |-> "Panic"]

\* Parser::consume reporting a missing Newline as MissingNewline
consume_missing_newline(S, expected) ==
    LET Got(r) ==
            IF r.t = "Err" THEN [ok |-> FALSE, error |-> PE_LexError(r.error), lx |-> r.lx]
            ELSE IF r.t = "Eof" THEN [ok |-> FALSE, error |-> PE_UnexpectedEof, lx |-> r.lx]
            ELSE IF r.tok.kind = expected THEN [ok |-> TRUE, tok |-> r.tok, lx |-> r.lx]
            ELSE IF expected = "Newline"
            THEN [ok |-> FALSE, error |-> PE_MissingNewline, lx |-> r.lx]
            ELSE [ok |-> FALSE, error |-> PE_Expected(expected, r.tok.kind), lx |-> r.lx]
    IN  Got(lex(S))

\* Parser::consume taking the end of the input for a Newline
consume_eof(S, expected) ==
    LET Got(r) ==
            IF r.t = "Err" THEN [ok |-> FALSE, error |-> PE_LexError(r.error), lx |-> r.lx]
            ELSE IF r.t = "Eof" /\ expected = "Newline"
            THEN [ok |-> TRUE, tok |-> token(r.lx, "Newline"), lx |-> r.lx]
            ELSE IF r.t = "Eof" THEN [ok |-> FALSE, error |-> PE_UnexpectedEof, lx |-> r.lx]
            ELSE IF r.tok.kind = expected THEN [ok |-> TRUE, tok |-> r.tok, lx |-> r.lx]
            ELSE [ok |-> FALSE, error |-> PE_Expected(expected, r.tok.kind), lx |-> r.lx]
    IN  Got(lex(S))

\* Parser::consume: Result<Token, ParseError>
consume(S, expected) ==
    LET Got(r) ==
            IF r.t = "Err" THEN [ok |-> FALSE, error |-> PE_LexError(r.error), lx |-> r.lx]
            ELSE IF r.t = "Eof" THEN [ok |-> FALSE, error |-> PE_UnexpectedEof, lx |-> r.lx]
            ELSE IF r.tok.kind = expected THEN [ok |-> TRUE, tok |-> r.tok, lx |-> r.lx]
            ELSE [ok |-> FALSE, error |-> PE_Expected(expected, r.tok.kind), lx |-> r.lx]
    IN  Got(lex(S))

\* Parser::parse_identifier
parse_identifier(S, T) ==
    LET Named(c, i) == [ok |-> TRUE, id |-> i.sym, lx |-> c.lx, tab |-> i.tab]
        Got(c) ==
            IF c.ok
            THEN Named(c, Identifier_new(T, lexeme(c.tok)))
            ELSE [ok |-> FALSE, error |-> c.error, lx |-> c.lx, tab |-> T]
    IN  Got(consume(S, "Identifier"))

\* Parser::parse_target: Result<Option<ast::Target>, ParseError>
parse_target(S, T) ==
    LET Got(r) ==
            IF ~r.ok
            THEN [ok |-> FALSE, error |-> PE_LexError(r.error), lx |-> r.lx, tab |-> r.tab]
            ELSE IF r.value = None
            THEN [ok |-> TRUE, target |-> None, lx |-> r.lx, tab |-> r.tab]
            ELSE [ok |-> TRUE, target |-> Some(Target_new(Unwrap(r.value))),
                  lx |-> r.lx, tab |-> r.tab]
    IN  Got(lex_target(S, T))

\* Parser::parse_value: Result<Option<ast::Value>, ParseError>
parse_value(S, T) ==
    LET Got(r) ==
            IF ~r.ok
            THEN [ok |-> FALSE, error |-> PE_LexError(r.error), lx |-> r.lx, tab |-> r.tab]
            ELSE IF r.value = None
            THEN [ok |-> TRUE, value |-> None, lx |-> r.lx, tab |-> r.tab]
            ELSE [ok |-> TRUE, value |-> Some(ast_Value_new(Unwrap(r.value))),
                  lx |-> r.lx, tab |-> r.tab]
    IN  Got(lex_value(S, T))

----------------------------------------------------------------------------
(* parse.rs: Parser::parse as a state machine.  pc is the place in the      *)
(* grammar; every action makes one call into the lexer.                    *)

Frame_empty ==
    [decl |-> "none", name |-> None, rule |-> None,
     outputs |-> <<>>, implicit_outputs |-> <<>>, inputs |-> <<>>,
     implicit_inputs |-> <<>>, order_inputs |-> <<>>, targets |-> <<>>,
     bindings |-> <<>>, identifier |-> None, value |-> None, scope |-> None]

LexState == [start |-> current.start, end |-> current.end, line |-> line]

SetLexer(lx) ==
    /\ current' = [start |-> lx.start, end |-> lx.end]
    /\ line' = lx.line

\* go on parsing at place p with locals f
Goto(lx, tab, p, f) ==
    /\ SetLexer(lx)
    /\ table' = tab
    /\ pc' = p
    /\ frame' = f
    /\ UNCHANGED <<input, scopes, declarations, result, calls>>

\* parse returns res (or unwinds)
\* a return after which the top-level loop goes on
Return_resume(lx, tab, res) ==
    /\ SetLexer(lx)
    /\ table' = tab
    /\ pc' = "decl"
    /\ result' = res
    /\ frame' = Frame_empty
    /\ UNCHANGED <<input, scopes, declarations, calls>>

Return(lx, tab, res) ==
    /\ SetLexer(lx)
    /\ table' = tab
    /\ pc' = "done"
    /\ result' = res
    /\ UNCHANGED <<input, scopes, declarations, frame, calls>>

\* Declarations::add_* putting the declaration in front
AddDeclaration_front(tab, d) ==
    /\ declarations' = <<d>> \o declarations
    /\ table' = tab
    /\ pc' = "decl"
    /\ frame' = Frame_empty
    /\ UNCHANGED <<input, current, line, scopes, result, calls>>

\* a declaration is complete: Declarations::add_*, back to the top-level loop
AddDeclaration(tab, d) ==
    /\ declarations' = Append(declarations, d)
    /\ table' = tab
    /\ pc' = "decl"
    /\ frame' = Frame_empty
    /\ UNCHANGED <<input, current, line, scopes, result, calls>>

\* parse: one iteration of the top-level loop, up to the dispatch
ParseDecl ==
    /\ pc = "decl"
    /\ LET Got(r) ==
               IF r.t = "Err" THEN Return(r.lx, table, Err(PE_LexError(r.error)))
               ELSE IF r.t = "Eof" THEN Return(r.lx, table, Ok)
               ELSE IF r.tok.kind = "Rule"
                    THEN Goto(r.lx, table, "rule_name", [Frame_empty EXCEPT !.decl = "rule"])
               ELSE IF r.tok.kind = "Build"
                    THEN Goto(r.lx, table, "build_outputs", [Frame_empty EXCEPT !.decl = "build"])
               ELSE IF r.tok.kind = "Default"
                    THEN Goto(r.lx, table, "default_targets", [Frame_empty EXCEPT !.decl = "default"])
               ELSE IF r.tok.kind \in {"Subninja", "Include"}
                    THEN Return(r.lx, table, Panic)
               ELSE IF r.tok.kind = "Pool"
                    THEN Goto(r.lx, table, "pool_name", [Frame_empty EXCEPT !.decl = "pool"])
               ELSE IF r.tok.kind = "Identifier"
                    THEN LET Named(i) ==
                                 Goto(r.lx, i.tab, "top_equal",
                                      [Frame_empty EXCEPT !.decl = "top",
                                                          !.identifier = Some(i.sym)])
                         IN  Named(Identifier_new(table, lexeme(r.tok)))
               ELSE Goto(r.lx, table, "decl", Frame_empty)
       IN  Got(lex_decl(LexState))

\* parse_rule / parse_pool: the name
ParseName(at, next) ==
    /\ pc = at
    /\ LET Got(r) ==
               IF r.ok
               THEN Goto(r.lx, r.tab, next, [frame EXCEPT !.name = Some(r.id)])
               ELSE Return(r.lx, r.tab, Err(r.error))
       IN  Got(parse_identifier(LexState, table))

\* a consume(expected) whose token is dropped
ParseConsume(at, expected, next) ==
    /\ pc = at
    /\ LET Got(r) ==
               IF r.ok
               THEN Goto(r.lx, table, next, frame)
               ELSE Return(r.lx, table, Err(r.error))
       IN  Got(consume(LexState, expected))

ParseRuleName == ParseName("rule_name", "rule_newline")

ParseRuleNewline == ParseConsume("rule_newline", "Newline", "scope")

ParsePoolName == ParseName("pool_name", "pool_newline")

ParsePoolNewline == ParseConsume("pool_newline", "Newline", "scope")

\* parse_scope: one test of the while loop; the loop's exit calls new_scope
ParseScope ==
    /\ pc = "scope"
    /\ IF try_indent(LexState)
       THEN Goto(lex(LexState).lx, table, "binding_identifier", frame)
       ELSE LET Made(n) ==
                    IF n.ok
                    THEN /\ scopes' = n.scopes
                         /\ frame' = [frame EXCEPT !.scope = Some(n.id)]
                         /\ pc' = "scope_done"
                         /\ UNCHANGED <<input, current, line, table, declarations,
                                        result, calls>>
                    ELSE Return(LexState, table, Err(PE_AstError(n.error)))
            IN  Made(Scopes_new_scope(scopes, frame.bindings))

\* parse_binding
ParseBindingIdentifier ==
    /\ pc = "binding_identifier"
    /\ LET Got(r) ==
               IF r.ok
               THEN Goto(r.lx, r.tab, "binding_equal", [frame EXCEPT !.identifier = Some(r.id)])
               ELSE Return(r.lx, r.tab, Err(r.error))
       IN  Got(parse_identifier(LexState, table))

ParseBindingEqual == ParseConsume("binding_equal", "Equal", "binding_value")

\* the parse_value of parse_binding and parse_top_level_binding
ParseValue(at, next) ==
    /\ pc = at
    /\ LET Got(r) ==
               IF ~r.ok THEN Return(r.lx, r.tab, Err(r.error))
               ELSE IF r.value = None THEN Return(r.lx, r.tab, Err(PE_InvalidValue))
               ELSE Goto(r.lx, r.tab, next, [frame EXCEPT !.value = r.value])
       IN  Got(parse_value(LexState, table))

ParseBindingValue == ParseValue("binding_value", "binding_newline")

\* evaluation in the scope created last
EvalScope_newest(SS) == Arena_get(SS.arena, Len(SS.arena.items) - 1)

\* the scope a binding's value is evaluated in
EvalScope(SS) == Scopes_get_scope(SS, SS.top)

\* parse_binding: the newline, the evaluation, and the push in parse_scope
ParseBindingNewline ==
    /\ pc = "binding_newline"
    /\ LET Got(r) ==
               IF r.ok
               THEN Goto(r.lx, table, "scope",
                         [frame EXCEPT
                              !.bindings =
                                  Append(@, Binding_new(Unwrap(frame.identifier),
                                                        Scope_evaluate(EvalScope(scopes),
                                                                       Unwrap(frame.value)))),
                              !.identifier = None, !.value = None])
               ELSE Return(r.lx, table, Err(r.error))
       IN  Got(consume(LexState, "Newline"))

\* parse_top_level_binding
ParseTopEqual == ParseConsume("top_equal", "Equal", "top_value")

ParseTopValue == ParseValue("top_value", "top_newline")

\* parse_top_level_binding: the newline and the evaluation; then parse
\* pushes the binding into the top scope
ParseTopNewline ==
    /\ pc = "top_newline"
    /\ LET Got(r) ==
               IF r.ok
               THEN LET Pushed(p) ==
                            /\ SetLexer(r.lx)
                            /\ scopes' = [scopes EXCEPT
                                              !.arena.items[scopes.top + 1] = p.scope]
                            /\ IF p.ok
                               THEN /\ pc' = "decl"
                                    /\ frame' = Frame_empty
                                    /\ UNCHANGED result
                               ELSE /\ pc' = "done"
                                    /\ result' = Err(PE_AstError("DuplicateBinding"))
                                    /\ UNCHANGED frame
                            /\ UNCHANGED <<input, table, declarations, calls>>
                    IN  Pushed(Scope_push(EvalScope(scopes),
                                          Binding_new(Unwrap(frame.identifier),
                                                      Scope_evaluate(EvalScope(scopes),
                                                                     Unwrap(frame.value)))))
               ELSE Return(r.lx, table, Err(r.error))
       IN  Got(consume(LexState, "Newline"))

\* parse_rule's return and Declarations::add_rule
FinishRule ==
    /\ pc = "scope_done"
    /\ frame.decl = "rule"
    /\ AddDeclaration(table, [kind |-> "Rule", name |-> Unwrap(frame.name),
                              scope |-> Unwrap(frame.scope)])

\* parse_pool after parse_scope, and Declarations::add_pool
FinishPool ==
    /\ pc = "scope_done"
    /\ frame.decl = "pool"
    /\ LET Got(d) ==
               IF d.ok
               THEN AddDeclaration(d.tab, [kind |-> "Pool", name |-> Unwrap(frame.name),
                                           depth |-> d.depth])
               ELSE Return(LexState, d.tab, Err(PE_PoolDepthInvalid))
       IN  Got(pool_depth(scopes, Unwrap(frame.scope), table))

\* a target loop that is not left when parse_target returns no target
ParseTargets_stay(at, field, next) ==
    /\ pc = at
    /\ LET Got(r) ==
               IF ~r.ok THEN Return(r.lx, r.tab, Err(r.error))
               ELSE IF r.target = None THEN Goto(r.lx, r.tab, at, frame)
               ELSE Goto(r.lx, r.tab, at, [frame EXCEPT ![field] = Append(@, Unwrap(r.target))])
       IN  Got(parse_target(LexState, table))

\* one turn of a `while let Some(target) = self.parse_target(arena)?` loop
\* that fills the list `field`; the loop is left for place `next`
ParseTargets(at, field, next) ==
    /\ pc = at
    /\ LET Got(r) ==
               IF ~r.ok THEN Return(r.lx, r.tab, Err(r.error))
               ELSE IF r.target = None THEN Goto(r.lx, r.tab, next, frame)
               ELSE Goto(r.lx, r.tab, at, [frame EXCEPT ![field] = Append(@, Unwrap(r.target))])
       IN  Got(parse_target(LexState, table))

\* parse_build
ParseBuildOutputs == ParseTargets("build_outputs", "outputs", "build_colon")

\* parse_build: the token after the outputs
ParseBuildColon ==
    /\ pc = "build_colon"
    /\ LET Got(r) ==
               IF r.t = "Err" THEN Return(r.lx, table, Err(PE_LexError(r.error)))
               ELSE IF r.t = "Eof" THEN Return(r.lx, table, Err(PE_UnexpectedEof))
               ELSE IF r.tok.kind = "Pipe" THEN Goto(r.lx, table, "build_implicit_outputs", frame)
               ELSE IF r.tok.kind = "Colon" THEN Goto(r.lx, table, "build_rule", frame)
               ELSE Return(r.lx, table, Err(PE_UnexpectedToken(r.tok.kind)))
       IN  Got(lex(LexState))

ParseBuildImplicitOutputs ==
    ParseTargets("build_implicit_outputs", "implicit_outputs", "build_implicit_colon")

ParseBuildImplicitColon == ParseConsume("build_implicit_colon", "Colon", "build_rule")

ParseBuildRule ==
    /\ pc = "build_rule"
    /\ LET Got(r) ==
               IF r.ok
               THEN Goto(r.lx, r.tab, "build_inputs", [frame EXCEPT !.rule = Some(r.id)])
               ELSE Return(r.lx, r.tab, Err(r.error))
       IN  Got(parse_identifier(LexState, table))

ParseBuildInputs == ParseTargets("build_inputs", "inputs", "build_end")

\* parse_build reporting the token after the inputs as Expected
ParseBuildEnd_expected ==
    /\ pc = "build_end"
    /\ LET Got(r) ==
               IF r.t = "Err" THEN Return(r.lx, table, Err(PE_LexError(r.error)))
               ELSE IF r.t = "Eof" THEN Return(r.lx, table, Err(PE_UnexpectedEof))
               ELSE IF r.tok.kind = "Newline" THEN Goto(r.lx, table, "scope", frame)
               ELSE IF r.tok.kind = "Pipe" THEN Goto(r.lx, table, "build_implicit_inputs", frame)
               ELSE IF r.tok.kind = "PipePipe" THEN Goto(r.lx, table, "build_order_inputs", frame)
               ELSE Return(r.lx, table, Err(PE_Expected("Newline", r.tok.kind)))
       IN  Got(lex(LexState))

\* parse_build: the token after the inputs
ParseBuildEnd ==
    /\ pc = "build_end"
    /\ LET Got(r) ==
               IF r.t = "Err" THEN Return(r.lx, table, Err(PE_LexError(r.error)))
               ELSE IF r.t = "Eof" THEN Return(r.lx, table, Err(PE_UnexpectedEof))
               ELSE IF r.tok.kind = "Newline" THEN Goto(r.lx, table, "scope", frame)
               ELSE IF r.tok.kind = "Pipe" THEN Goto(r.lx, table, "build_implicit_inputs", frame)
               ELSE IF r.tok.kind = "PipePipe" THEN Goto(r.lx, table, "build_order_inputs", frame)
               ELSE Return(r.lx, table, Err(PE_UnexpectedToken(r.tok.kind)))
       IN  Got(lex(LexState))

ParseBuildImplicitInputs ==
    ParseTargets("build_implicit_inputs", "implicit_inputs", "build_implicit_end")

\* parse_build: the token after the implicit inputs
ParseBuildImplicitEnd ==
    /\ pc = "build_implicit_end"
    /\ LET Got(r) ==
               IF r.t = "Err" THEN Return(r.lx, table, Err(PE_LexError(r.error)))
               ELSE IF r.t = "Eof" THEN Return(r.lx, table, Err(PE_UnexpectedEof))
               ELSE IF r.tok.kind = "Newline" THEN Goto(r.lx, table, "scope", frame)
               ELSE IF r.tok.kind = "PipePipe" THEN Goto(r.lx, table, "build_order_inputs", frame)
               ELSE Return(r.lx, table, Err(PE_UnexpectedToken(r.tok.kind)))
       IN  Got(lex(LexState))

ParseBuildOrderInputs ==
    ParseTargets("build_order_inputs", "order_inputs", "build_newline")

\* parse_build taking a `|` clause after the `||` clause as well
ParseBuildNewline_pipe ==
    /\ pc = "build_newline"
    /\ LET Got(r) ==
               IF r.t = "Err" THEN Return(r.lx, table, Err(PE_LexError(r.error)))
               ELSE IF r.t = "Eof" THEN Return(r.lx, table, Err(PE_UnexpectedEof))
               ELSE IF r.tok.kind = "Newline" THEN Goto(r.lx, table, "scope", frame)
               ELSE IF r.tok.kind = "Pipe" THEN Goto(r.lx, table, "build_implicit_inputs", frame)
               ELSE Return(r.lx, table, Err(PE_Expected("Newline", r.tok.kind)))
       IN  Got(lex(LexState))

ParseBuildNewline == ParseConsume("build_newline", "Newline", "scope")

\* parse_build's return and Declarations::add_build
FinishBuild ==
    /\ pc = "scope_done"
    /\ frame.decl = "build"
    /\ AddDeclaration(table,
           [kind |-> "Build", outputs |-> frame.outputs,
            implicit_outputs |-> frame.implicit_outputs,
            rule |-> Unwrap(frame.rule), inputs |-> frame.inputs,
            implicit_inputs |-> frame.implicit_inputs,
            order_inputs |-> frame.order_inputs, scope |-> Unwrap(frame.scope)])

\* parse_default
ParseDefaultTargets == ParseTargets("default_targets", "targets", "default_newline")

\* parse_default's newline and return, and Declarations::add_default
ParseDefaultNewline ==
    /\ pc = "default_newline"
    /\ LET Got(r) ==
               IF r.ok
               THEN /\ SetLexer(r.lx)
                    /\ declarations' = Append(declarations,
                                              [kind |-> "Default", targets |-> frame.targets])
                    /\ pc' = "decl"
                    /\ frame' = Frame_empty
                    /\ UNCHANGED <<input, table, scopes, result, calls>>
               ELSE Return(r.lx, table, Err(r.error))
       IN  Got(consume(LexState, "Newline"))

ParseNext ==
    \/ ParseDecl
    \/ ParseRuleName
    \/ ParseRuleNewline
    \/ ParsePoolName
    \/ ParsePoolNewline
    \/ ParseScope
    \/ ParseBindingIdentifier
    \/ ParseBindingEqual
    \/ ParseBindingValue
    \/ ParseBindingNewline
    \/ ParseTopEqual
    \/ ParseTopValue
    \/ ParseTopNewline
    \/ FinishRule
    \/ FinishPool
    \/ ParseBuildOutputs
    \/ ParseBuildColon
    \/ ParseBuildImplicitOutputs
    \/ ParseBuildImplicitColon
    \/ ParseBuildRule
    \/ ParseBuildInputs
    \/ ParseBuildEnd
    \/ ParseBuildImplicitInputs
    \/ ParseBuildImplicitEnd
    \/ ParseBuildOrderInputs
    \/ ParseBuildNewline
    \/ FinishBuild
    \/ ParseDefaultTargets
    \/ ParseDefaultNewline

\* Parser::new and the first lines of parse
ParseStart ==
    /\ current = [start |-> Lexer_new.start, end |-> Lexer_new.end]
    /\ line = Lexer_new.line
    /\ table = Table_new
    /\ scopes = Scopes_new
    /\ declarations = <<>>
    /\ pc = "decl"
    /\ frame = Frame_empty
    /\ result = Running
    /\ calls = <<>>

----------------------------------------------------------------------------
(* The source files parsed: every file of at most MaxLines lines taken     *)
(* from a catalogue of top-level lines, declaration headers and indented   *)
(* binding lines, laid out as a build file is: an indented line comes      *)
(* directly after a header or after another indented line.                 *)

MaxLines == 4

SP == <<" ">>
NL == <<"\n">>
Indent == <<" ", " ">>

\* "d = " v "\n"
TopD(v) == <<"d", " ", "=", " ">> \o v \o NL

\* "  depth = " v "\n"
Depth(v) == Indent \o W_depth \o <<" ", "=", " ">> \o v \o NL

TopLines ==
    { TopD(<<"2","3">>),
      TopD(<<"-","2","3">>),
      TopD(USIZE_MAX),
      <<"e", " ", "=", " ", "$", "d", "\n">>,
      W_include \o SP \o <<"a">> \o NL,
      W_subninja \o SP \o <<"a">> \o NL }

HeaderLines ==
    { W_pool \o SP \o <<"p">> \o NL,
      W_rule \o SP \o <<"r">> \o NL,
      W_build \o <<" ","o"," ","|"," ","p",":"," ","r"," ","i"," ","|"," ","j",
                   " ","|","|"," ","k","\n">>,
      W_default \o SP \o <<"o">> \o NL }

BlockLines ==
    { Depth(<<"$","d">>),
      Depth(<<"$","{","d","}","0">>),
      Depth(<<"+","$","d">>),
      Depth(<<"$","d"," ">>),
      Depth(<<"2","a">>),
      Indent \o <<"d"," ","="," ","5","\n">> }

Lines == TopLines \cup HeaderLines \cup BlockLines

\* the bytes of the file whose lines are ls; an empty entry is no line
RECURSIVE Concat(_, _)
Concat(ls, i) == IF i > Len(ls) THEN <<>> ELSE ls[i] \o Concat(ls, i + 1)

\* ls is laid out as a build file: the lines first and then the empty
\* entries, every indented line directly after a header or an indented line
LaidOut(ls) ==
    \A i \in DOMAIN ls :
        /\ ls[i] # <<>> /\ i > 1 => ls[i - 1] # <<>>
        /\ ls[i] \in BlockLines => i > 1 /\ ls[i - 1] \in HeaderLines \cup BlockLines

\* Parser::new and the first lines of parse, over the files of the catalogue
Init ==
    /\ \E ls \in [1..MaxLines -> Lines \cup {<<>>}] :
           /\ LaidOut(ls)
           /\ input = Concat(ls, 1)
    /\ ParseStart

Next == ParseNext

Spec == Init /\ [][Next]_vars

----------------------------------------------------------------------------
(* The intern table on its own: a caller makes up to MaxInserts calls of   *)
(* Table::insert with contents of InternContents and keeps what each call  *)
(* returned, as tests::deduplication does.                                 *)

MaxInserts == 4

InternContents == {<<>>, <<"a">>, <<"b">>, <<"a", "a">>, <<"a", "b">>}

InternInit ==
    /\ input = <<>>
    /\ ParseStart

InternInsert ==
    /\ Len(calls) < MaxInserts
    /\ \E bytes \in InternContents :
           LET Inserted(r) ==
                   /\ table' = r.tab
                   /\ calls' = Append(calls, [bytes |-> bytes, sym |-> r.sym])
           IN  Inserted(Table_insert(table, bytes))
    /\ UNCHANGED <<input, current, line, scopes, declarations, pc, frame, result>>

InternNext == InternInsert

SpecIntern == InternInit /\ [][InternNext]_vars

----------------------------------------------------------------------------
(* The declaration grammar: files of at most MaxDecls lines taken from a   *)
(* catalogue of build lines (a head up to the rule name, and a tail after  *)
(* it), default lines, blank and comment lines, and the other declarations.*)

MaxDecls == 2

\* a build line up to its rule name
BuildHeads ==
    { <<"b", "u", "i", "l", "d", " ", "o", ":", " ", "r">>,
      <<"b", "u", "i", "l", "d", " ", ":", " ", "r">>,
      <<"b", "u", "i", "l", "d", " ", "o", " ", "|", " ", "p", ":", " ", "r">>,
      <<"b", "u", "i", "l", "d", " ", "o", " ", "|", " ", ":", " ", "r">>,
      <<"b", "u", "i", "l", "d", " ", "o", " ", "|", "|", " ", "p", ":", " ", "r">>,
      <<"b", "u", "i", "l", "d", " ", "o", " ", "|", " ", "p", " ", "|", " ", "q", ":", " ", "r">> }

\* a build line after its rule name; the last three end the input
BuildTails ==
    { <<" ", "i", "\n">>,
      <<"\n">>,
      <<" ", "i", " ", "|", " ", "j", "\n">>,
      <<" ", "i", " ", "|", " ", "j", " ", "|", "|", " ", "k", "\n">>,
      <<" ", "i", " ", "|", "|", " ", "k", "\n">>,
      <<" ", "i", " ", "|", "|", " ", "k", " ", "|", " ", "j", "\n">>,
      <<" ", "i", " ", ":", "\n">>,
      <<" ", "i", " ", "|", " ", "j", " ", ":", "\n">>,
      <<" ", "i", " ", "|", " ", "j", " ", "|", " ", "k", "\n">>,
      <<" ", "|", "\n">>,
      <<" ", "i">>,
      <<" ", "i", " ", "|", " ", "j", " ">>,
      <<" ", "i", " ", "|", "|", " ", "k">> }

\* build lines cut short, default lines, a comment, a blank line, the other
\* declarations, bindings with and without a value, and a binding, a comment
\* and a rule line that the end of the input cuts short
OtherLines ==
    { <<"b", "u", "i", "l", "d", " ", "o", "\n">>,
      <<"b", "u", "i", "l", "d", " ", "o", " ">>,
      <<"b", "u", "i", "l", "d", " ", "o", " ", "|", " ", "p", " ">>,
      <<"d", "e", "f", "a", "u", "l", "t", "\n">>,
      <<"d", "e", "f", "a", "u", "l", "t", " ", "o", "\n">>,
      <<"d", "e", "f", "a", "u", "l", "t", " ", "o", " ", "p", "\n">>,
      <<"#", " ", "c", "\n">>,
      <<"\n">>,
      <<"r", "u", "l", "e", " ", "r", "\n">>,
      <<"p", "o", "o", "l", " ", "p", "\n">>,
      <<"x", " ", "=", " ", "1", "\n">>,
      <<" ", " ", "d", "e", "p", "t", "h", " ", "=", "\n">>,
      <<" ", " ", "x", " ", "=", " ", "1", "\n">>,
      <<"x", " ", "=", "\n">>,
      <<"x", " ", "=", " ", "1">>,
      <<"#", " ", "c">>,
      <<"r", "u", "l", "e", " ", "r">> }

GrammarLines ==
    { h \o <<" ", "i", "\n">> : h \in BuildHeads }
        \cup { <<"b", "u", "i", "l", "d", " ", "o", ":", " ", "r">> \o t : t \in BuildTails }
        \cup OtherLines

\* Parser::new and the first lines of parse, over the files of this catalogue
GrammarInit ==
    /\ \E ls \in [1..MaxDecls -> GrammarLines \cup {<<>>}] :
           /\ \A i \in DOMAIN ls : ls[i] # <<>> /\ i > 1 => ls[i - 1] # <<>>
           /\ input = Concat(ls, 1)
    /\ ParseStart

SpecGrammar == GrammarInit /\ [][Next]_vars

\* Whole files for the runs of parse to its return: every line of the
\* catalogue as a one-line file, and files of two and three lines with
\* indented bindings, a repeated binding and a comment
LiveFiles ==
    GrammarLines \cup
    { <<"r", "u", "l", "e", " ", "r", "\n", " ", " ", "x", " ", "=", " ", "1", "\n">>,
      <<"p", "o", "o", "l", " ", "p", "\n", " ", " ", "d", "e", "p", "t", "h", " ", "=", " ", "1", "\n">>,
      <<"b", "u", "i", "l", "d", " ", "o", ":", " ", "r", " ", "i", "\n", " ", " ", "x", " ", "=", " ", "1", "\n">>,
      <<"x", " ", "=", " ", "1", "\n", "x", " ", "=", " ", "1", "\n">>,
      <<"#", " ", "c", "\n", "r", "u", "l", "e", " ", "r", "\n">>,
      <<"r", "u", "l", "e", " ", "r", "\n", " ", " ", "x", " ", "=", " ", "$", "y", "\n", "y", " ", "=", " ", "1", "\n">>,
      <<"r", "u", "l", "e", " ", "r", "\n", " ", " ", "x", " ", "=", " ", "1", "\n", "b", "u", "i", "l", "d", " ", "o", ":", " ", "r", "\n">>,
      <<"#", " ", "c", "\n", "b", "u", "i", "l", "d", " ", "o", " ", "|", " ", "p", ":", " ", "r", " ", "i", " ", "|", " ", "j", " ", "|", "|", " ", "k", "\n", " ", " ", "x", " ", "=", " ", "1", "\n", "d", "e", "f", "a", "u", "l", "t", " ", "o", "\n">> }

\* the caller has not chosen the file yet
LiveInit ==
    /\ input = <<>>
    /\ current = [start |-> Lexer_new.start, end |-> Lexer_new.end]
    /\ line = Lexer_new.line
    /\ table = Table_new
    /\ scopes = Scopes_new
    /\ declarations = <<>>
    /\ pc = "start"
    /\ frame = Frame_empty
    /\ result = Running
    /\ calls = <<>>

\* Parser::new on one of the files, followed by the call of parse
ParseOpen ==
    /\ pc = "start"
    /\ \E f \in LiveFiles : input' = f
    /\ pc' = "decl"
    /\ UNCHANGED <<current, line, table, scopes, declarations, frame, result, calls>>

LiveNext == ParseOpen \/ Next

\* parse is one sequential call on one thread: the caller makes the call, and
\* while parse has not returned, its next step is taken
SpecGrammarLive == LiveInit /\ [][LiveNext]_vars /\ WF_vars(LiveNext)

----------------------------------------------------------------------------
(* The lexer on its own: a caller calls lex() or lex_decl() until one      *)
(* returns no token or an error, as tests::lex_all does with lex(), and    *)
(* keeps every token it got.  The inputs are the strings of at most        *)
(* MaxPieces pieces of LexPieces, and each byte of tests::unknown_characters*)
(* as the sole input.                                                      *)

MaxPieces == 3

\* the bytes of tests::unknown_characters
UnknownCharacters ==
    { "~", "`", "!", "@", "%", "^", "&", "*", "(", ")", "[", "]", "{", "}", "'", "\"", ",", "<", ">", "/", "?", "+", "\\", ";" }

LexPieces ==
    { <<" ">>, <<"\n">>, <<"\r">>, <<"=">>, <<":">>, <<"|">>, <<"#">>, <<"$">>,
      <<"~">>, <<"a">>, <<".">>,
      W_default, W_rule, W_build, W_pool, W_include, W_subninja,
      <<"a", "\n", "a", "\n">>,
      <<"b", "u", "i", "l", "d", "d", "i", "r", " ", "=", " ", "b", "\n">>,
      <<"#", "\n">> }

\* the inputs of tests::escaped_newline and tests::escaped_cr_newline
EscapedNewline == <<"b", "u", "i", "l", "d", "d", "i", "r", " ", "=", " ", "$", "\n", " ", " ", " ", " ", "b", "\n">>

EscapedCrNewline == <<"b", "u", "i", "l", "d", "d", "i", "r", " ", "=", " ", "$", "\r", "\n", "b", "\n">>

LexInit ==
    /\ \/ \E ps \in [1..MaxPieces -> LexPieces \cup {<<>>}] :
              /\ \A i \in DOMAIN ps : ps[i] # <<>> /\ i > 1 => ps[i - 1] # <<>>
              /\ input = Concat(ps, 1)
       \/ \E b \in UnknownCharacters : input = <<b>>
       \/ input \in {EscapedNewline, EscapedCrNewline}
    /\ ParseStart

\* what the caller does with the outcome r of a call: keep the token, or
\* stop at the end of the input or at an error
LexReturned(r) ==
    /\ SetLexer(r.lx)
    /\ IF r.t = "Token"
       THEN /\ calls' = Append(calls, r.tok)
            /\ UNCHANGED <<pc, result>>
       ELSE /\ pc' = "done"
            /\ result' = IF r.t = "Eof" THEN Ok ELSE Err(r.error)
            /\ UNCHANGED calls
    /\ UNCHANGED <<input, table, scopes, declarations, frame>>

LexCall == pc = "decl" /\ LexReturned(lex(LexState))

LexDeclCall == pc = "decl" /\ LexReturned(lex_decl(LexState))

LexNext == LexCall \/ LexDeclCall

SpecLex == LexInit /\ [][LexNext]_vars

----------------------------------------------------------------------------
(* The cursor inside skip_whitespace.  lex is taken apart into lex_one and *)
(* the steps of the skip_whitespace that follows a token other than        *)
(* Newline; lex_target into its scanning loop and the steps of its         *)
(* skip_whitespace.  One step is one turn of a match of skip_whitespace;   *)
(* frame holds the end offset the call started from and the local dollar.  *)

MaxCursorLen == 4

CursorBytes == {" ", "$", "\n", "\r", "a"}

CursorInit ==
    /\ \E n \in 0..MaxCursorLen : \E s \in [1..n -> CursorBytes] : input = s
    /\ ParseStart

SkipCall(e) == [from |-> e, dollar |-> None]

\* lex: lex_one, the comment loop, and the call of skip_whitespace
CursorLexOne ==
    /\ pc = "decl"
    /\ LET Lexed(r) ==
               /\ SetLexer(r.lx)
               /\ IF r.t = "Token"
                  THEN /\ calls' = Append(calls, r.tok)
                       /\ IF r.tok.kind # "Newline"
                          THEN pc' = "skip" /\ frame' = SkipCall(r.lx.end)
                          ELSE UNCHANGED <<pc, frame>>
                       /\ UNCHANGED result
                  ELSE IF r.t = "Comment" THEN UNCHANGED <<pc, frame, result, calls>>
                  ELSE /\ pc' = "done"
                       /\ result' = IF r.t = "Eof" THEN Ok ELSE Err(r.error)
                       /\ UNCHANGED <<frame, calls>>
               /\ UNCHANGED <<input, table, scopes, declarations>>
       IN  Lexed(lex_one(LexState))

\* lex_target: the scanning loop and the call of skip_whitespace
CursorTarget ==
    /\ pc = "decl"
    /\ LET Scanned(r) ==
               /\ SetLexer(r.lx)
               /\ table' = r.tab
               /\ IF r.ok
                  THEN pc' = "skip" /\ frame' = SkipCall(r.lx.end) /\ UNCHANGED result
                  ELSE pc' = "done" /\ result' = Err(r.error) /\ UNCHANGED frame
               /\ UNCHANGED <<input, scopes, declarations, calls>>
       IN  Scanned(scan_parts(LexState, table, <<>>, {"|", ":", " ", "\n"}))

\* lex_value
CursorValue ==
    /\ pc = "decl"
    /\ LET Scanned(r) ==
               /\ SetLexer(r.lx)
               /\ table' = r.tab
               /\ IF r.ok
                  THEN UNCHANGED <<pc, result>>
                  ELSE pc' = "done" /\ result' = Err(r.error)
               /\ UNCHANGED <<input, scopes, declarations, frame, calls>>
       IN  Scanned(lex_value(LexState, table))

SkipStep(end, p, f) ==
    /\ current' = [current EXCEPT !.end = end]
    /\ pc' = p
    /\ frame' = f
    /\ UNCHANGED <<input, line, table, scopes, declarations, result, calls>>

\* the break of the loop with the cursor at offset end, and start_next_token
SkipBreak(end) ==
    /\ current' = [start |-> end, end |-> end]
    /\ pc' = "decl"
    /\ UNCHANGED <<input, line, table, scopes, declarations, frame, result, calls>>

\* skip_whitespace: the outer match
SkipLoop ==
    /\ pc = "skip"
    /\ IF peek(current.end) = " " THEN SkipStep(current.end + 1, "skip", frame)
       ELSE IF peek(current.end) = "$"
       THEN SkipStep(current.end + 1, "skip_dollar",
                     [frame EXCEPT !.dollar = Some(current.end)])
       ELSE SkipBreak(current.end)

\* skip_whitespace: the match after a `$` that leaves the cursor after the `$`
SkipDollar_no_reset ==
    /\ pc = "skip_dollar"
    /\ IF peek(current.end) \in {"\n", " "} THEN SkipStep(current.end + 1, "skip", frame)
       ELSE IF peek(current.end) = "\r" THEN SkipStep(current.end + 1, "skip_cr", frame)
       ELSE SkipBreak(current.end)

\* skip_whitespace: the match after a `$`
SkipDollar ==
    /\ pc = "skip_dollar"
    /\ IF peek(current.end) \in {"\n", " "} THEN SkipStep(current.end + 1, "skip", frame)
       ELSE IF peek(current.end) = "\r" THEN SkipStep(current.end + 1, "skip_cr", frame)
       ELSE SkipBreak(Unwrap(frame.dollar))

\* skip_whitespace: the match after `$` and `\r`
SkipCr ==
    /\ pc = "skip_cr"
    /\ IF peek(current.end) = "\n" THEN SkipStep(current.end + 1, "skip", frame)
       ELSE SkipBreak(Unwrap(frame.dollar))

CursorNext ==
    \/ CursorLexOne
    \/ CursorTarget
    \/ CursorValue
    \/ SkipLoop
    \/ SkipDollar
    \/ SkipCr

SpecCursor == CursorInit /\ [][CursorNext]_vars

----------------------------------------------------------------------------
(* Value and target scanning: a caller calls lex(), lex_value() and        *)
(* lex_target() in any order, as the parser and tests::value and           *)
(* tests::target do, until a call returns no token or an error.  calls    *)
(* keeps, for every call, the operation, the cursor before and after it,   *)
(* and what it returned.  A caller that got a value or a target back with  *)
(* the cursor where it was calls lex() next.                               *)

MaxScanPieces == 3

\* the bytes and escapes of tests::one_line_value, tests::build, tests::value
\* and tests::target
ScanPieces ==
    { <<" ">>,
      <<"a">>,
      <<".">>,
      <<":">>,
      <<"|">>,
      <<"=">>,
      <<"$", " ">>,
      <<"$", ":">>,
      <<"$", "$">>,
      <<"$", "\n">>,
      <<"$", "{", "a", "}">>,
      <<"$", "a">>,
      <<"$", "{">>,
      <<"}">>,
      <<"$">> }

\* the text ends with a newline or is cut short
ScanInit ==
    /\ \E ps \in [1..MaxScanPieces -> ScanPieces \cup {<<>>}] :
           /\ \A i \in DOMAIN ps : ps[i] # <<>> /\ i > 1 => ps[i - 1] # <<>>
           /\ \E nl \in {<<>>, <<"\n">>} : input = Concat(ps, 1) \o nl
    /\ ParseStart

Called(op, out, res, lx) ==
    [op |-> op, from |-> current.end, to |-> lx.end, out |-> out, res |-> res]

ScanReturned(entry, lx, tab) ==
    /\ SetLexer(lx)
    /\ table' = tab
    /\ calls' = Append(calls, entry)
    /\ IF entry.out \in {"Token", "Value"}
       THEN UNCHANGED <<pc, result>>
       ELSE /\ pc' = "done"
            /\ result' = IF entry.out = "Eof" THEN Ok ELSE Err(entry.res)
    /\ UNCHANGED <<input, scopes, declarations, frame>>

ScanLex ==
    /\ pc = "decl"
    /\ LET Got(r) ==
               ScanReturned(Called("lex", r.t,
                                   IF r.t = "Token" THEN r.tok
                                   ELSE IF r.t = "Err" THEN r.error ELSE "none",
                                   r.lx),
                            r.lx, table)
       IN  Got(lex(LexState))

Progressed ==
    IF calls = <<>> THEN TRUE
    ELSE calls[Len(calls)].op = "lex" \/ calls[Len(calls)].to > calls[Len(calls)].from

ScanScanned(op, r) ==
    ScanReturned(Called(op, IF r.ok THEN "Value" ELSE "Err",
                        IF r.ok THEN r.value ELSE r.error, r.lx),
                 r.lx, r.tab)

ScanValue == pc = "decl" /\ Progressed /\ ScanScanned("lex_value", lex_value(LexState, table))

ScanTarget == pc = "decl" /\ Progressed /\ ScanScanned("lex_target", lex_target(LexState, table))

ScanNext == ScanLex \/ ScanValue \/ ScanTarget

SpecScan == ScanInit /\ [][ScanNext]_vars

----------------------------------------------------------------------------
(* Two runs of tests::lex_all: the caller calls lex() on an input until it *)
(* returns no token or an error, keeps the kinds of the tokens it got, and *)
(* does the same on a second input made from the first.                    *)

Kinds(tokens) == [n \in DOMAIN tokens |-> tokens[n].kind]

\* the offset of the first `\n` at or after offset e, or the input's length
RECURSIVE LineEnd(_)
LineEnd(e) == IF peek(e) \in {"\n", NoByte} THEN e ELSE LineEnd(e + 1)

\* the input from offset e on without the bytes of its comments: every `#`
\* and the bytes after it up to, not including, the `\n` that ends its line
RECURSIVE Uncommented(_)
Uncommented(e) ==
    IF peek(e) = NoByte THEN <<>>
    ELSE IF peek(e) = "#" THEN Uncommented(LineEnd(e))
    ELSE <<peek(e)>> \o Uncommented(e + 1)

\* Lexer::new on the second input, the kinds of the first run kept
LexAgain ==
    /\ pc = "done"
    /\ frame = Frame_empty
    /\ frame' = [first |-> input, kinds |-> Kinds(calls)]
    /\ input' = Uncommented(0)
    /\ current' = [start |-> Lexer_new.start, end |-> Lexer_new.end]
    /\ line' = Lexer_new.line
    /\ calls' = <<>>
    /\ pc' = "decl"
    /\ result' = Running
    /\ UNCHANGED <<table, scopes, declarations>>

CommentNext == LexCall \/ LexAgain

SpecComment == LexInit /\ [][CommentNext]_vars

----------------------------------------------------------------------------
(* An arena on its own: a caller inserts up to MaxArenaInserts values into *)
(* Arena::new().  In this specification scopes is the arena and calls     *)
(* keeps the handle each insert returned with the value inserted.          *)

MaxArenaInserts == 4

ArenaValues == {"a", "b", "c", "d"}

ArenaInit ==
    /\ input = <<>>
    /\ current = [start |-> Lexer_new.start, end |-> Lexer_new.end]
    /\ line = Lexer_new.line
    /\ table = Table_new
    /\ scopes = Arena_new
    /\ declarations = <<>>
    /\ pc = "decl"
    /\ frame = Frame_empty
    /\ result = Running
    /\ calls = <<>>

ArenaInsert ==
    /\ Len(calls) < MaxArenaInserts
    /\ \E t \in ArenaValues :
           LET Inserted(r) ==
                   /\ scopes' = r.arena
                   /\ calls' = Append(calls, [id |-> r.id, value |-> t])
           IN  Inserted(Arena_insert(scopes, t))
    /\ UNCHANGED <<input, current, line, table, declarations, pc, frame, result>>

SpecArena == ArenaInit /\ [][ArenaInsert]_vars

----------------------------------------------------------------------------
(* The parser's tests: tests::parse is called on one file after another,  *)
(* each call with a new intern table and a new parser, and calls keeps the *)
(* result of every call that has returned.                                 *)

\* the files of the live catalogue, and files that are cut short, leave out
\* a token, repeat a binding, end a value with `$` or give a pool no depth
CaseSet ==
    LiveFiles \cup
    { <<"p", "o", "o", "l", " ", "p", "\n", " ", " ", "d", "e", "p", "t", "h", " ", "=", "\n">>,
      <<"p", "o", "o", "l", " ", "p", "\n">>,
      <<"r", "u", "l", "e", " ", "r", " ", "x", "\n">>,
      <<"x", " ", "=", " ", "$", "\n">>,
      <<"x", " ", "=", " ", "$", " ", "\n">>,
      <<"x", " ", "1", "\n">>,
      <<"b", "u", "i", "l", "d", " ", "o", ":", " ", "r", " ", "i">>,
      <<"r", "u", "l", "e", "\n">>,
      <<"=", " ", "1", "\n">>,
      <<"r", "u", "l", "e", " ", "r", "\n", " ", " ", "x", "\n">>,
      <<"r", "u", "l", "e", " ", "r", "\n", " ", " ", "x", " ", "=", "\n", " ", " ", "x", " ", "=", " ", "1", "\n">>,
      <<>> }

\* the files in the order the test takes them
RECURSIVE CaseOrder(_)
CaseOrder(S) ==
    IF S = {} THEN <<>>
    ELSE LET First(f) == <<f>> \o CaseOrder(S \ {f})
         IN  First(CHOOSE f \in S : TRUE)

CaseFiles == CaseOrder(CaseSet)

CasesInit ==
    /\ input = CaseFiles[1]
    /\ ParseStart

\* parse has returned: the test keeps the result and calls tests::parse on
\* the next file, or is over after the last one
NextCase ==
    /\ pc = "done"
    /\ calls' = Append(calls, result)
    /\ IF Len(calls) + 1 < Len(CaseFiles)
       THEN /\ input' = CaseFiles[Len(calls) + 2]
            /\ current' = [start |-> Lexer_new.start, end |-> Lexer_new.end]
            /\ line' = Lexer_new.line
            /\ table' = Table_new
            /\ scopes' = Scopes_new
            /\ declarations' = <<>>
            /\ pc' = "decl"
            /\ frame' = Frame_empty
            /\ result' = Running
       ELSE /\ pc' = "reported"
            /\ UNCHANGED <<input, current, line, table, scopes, declarations, frame, result>>

CasesNext == NextCase \/ Next

SpecCases == CasesInit /\ [][CasesNext]_vars

----------------------------------------------------------------------------
(* Claims *)

\* C1: parse never aborts: on every input, also one with a line that starts
\* with `include` or `subninja`, it returns Ok(File) or Err(ParseError).
C1_NeverAborts == result.status # "Panic"

\* C2: two Table::insert calls return the same Symbol if and only if their
\* byte arguments are equal.
C2_SameSymbolIffEqualBytes ==
    \A i, j \in DOMAIN calls :
        (calls[i].sym = calls[j].sym) <=> (calls[i].bytes = calls[j].bytes)

\* a state in which equal content was inserted twice and distinct content too
C2_Witness ==
    \E i, j, k \in DOMAIN calls :
        /\ i < j
        /\ calls[i].bytes = calls[j].bytes
        /\ calls[k].bytes # calls[i].bytes

\* the contents of the first n calls
Seen(n) == {calls[i].bytes : i \in 1..n}

\* C3: an insert of new content returns the number of distinct contents
\* inserted before it and allocates one entry; an insert of content seen
\* before allocates nothing and leaves the table unchanged; so the ordinals
\* handed out are 0..n-1 in first-occurrence order.
C3_OrdinalsInFirstOccurrenceOrder ==
    /\ [](\A i \in DOMAIN calls :
              calls[i].bytes \notin Seen(i - 1) => calls[i].sym = Cardinality(Seen(i - 1)))
    /\ []({calls[i].sym : i \in DOMAIN calls} = 0..(Cardinality(Seen(Len(calls))) - 1))
    /\ [][Len(calls') = Len(calls) + 1 =>
              IF calls'[Len(calls')].bytes \in Seen(Len(calls))
              THEN table' = table
              ELSE /\ Len(table'.ids) = Len(table.ids) + 1
                   /\ table'.ids[Len(table'.ids)] = calls'[Len(calls')].bytes]_vars

\* a state in which new content was inserted after a repeated one
C3_Witness ==
    \E i, j, k \in DOMAIN calls :
        /\ i < j /\ j < k
        /\ calls[i].bytes = calls[j].bytes
        /\ calls[k].bytes \notin Seen(k - 1)
        /\ calls[k].sym = 1

\* the state the claims about scopes read
TopScope == scopes.arena.items[scopes.top + 1]

ScopeAt(id) == scopes.arena.items[id + 1]

ChildIds == {id \in 0..(Len(scopes.arena.items) - 1) : id # scopes.top}

Symbols == 0..(Len(table.ids) - 1)

Bound(id, n) == n \in DOMAIN ScopeAt(id).bindings

\* C4: from a child scope the chained lookup gives the child's own value when
\* the child binds the name, top's value when only top binds it, and nothing
\* when neither does; the single-scope lookup on the child gives nothing for
\* a name the child does not bind.
C4_ChainedLookup ==
    \A c \in ChildIds, n \in Symbols :
        /\ Bound(c, n) =>
               /\ Scopes_get(scopes, c, n) = Some(ScopeAt(c).bindings[n])
               /\ Scope_get(ScopeAt(c), n) = Some(ScopeAt(c).bindings[n])
        /\ ~Bound(c, n) /\ Bound(scopes.top, n) =>
               /\ Scopes_get(scopes, c, n) = Some(TopScope.bindings[n])
               /\ Scope_get(ScopeAt(c), n) = None
        /\ ~Bound(c, n) /\ ~Bound(scopes.top, n) =>
               /\ Scopes_get(scopes, c, n) = None
               /\ Scope_get(ScopeAt(c), n) = None

\* a child that binds a name top binds to another value, with a second name
\* bound only in top and a third bound nowhere
C4_Witness ==
    \E c \in ChildIds, n1, n2, n3 \in Symbols :
        /\ Bound(c, n1) /\ Bound(scopes.top, n1)
        /\ ScopeAt(c).bindings[n1] # TopScope.bindings[n1]
        /\ ~Bound(c, n2) /\ Bound(scopes.top, n2)
        /\ ~Bound(c, n3) /\ ~Bound(scopes.top, n3)

HasDuplicate(bs) == \E i, j \in DOMAIN bs : i < j /\ bs[i].id = bs[j].id

DuplicateBinding == Err(PE_AstError("DuplicateBinding"))

\* C5: when an indented block is complete, parse fails with
\* AstError(DuplicateBinding) if two of its bindings have the same name, and
\* otherwise adds the block's scope, whatever the other scopes bind; a
\* top-level binding fails in the same way if the top scope binds its name
\* already, and otherwise is added to the top scope.
C5_DuplicateBinding ==
    [][/\ pc = "scope" /\ ~try_indent(LexState) =>
              IF HasDuplicate(frame.bindings)
              THEN result' = DuplicateBinding
              ELSE /\ result' = Running
                   /\ Len(scopes'.arena.items) = Len(scopes.arena.items) + 1
       /\ pc = "top_newline" /\ consume(LexState, "Newline").ok =>
              IF Bound(scopes.top, Unwrap(frame.identifier))
              THEN result' = DuplicateBinding
              ELSE /\ result' = Running
                   /\ Unwrap(frame.identifier) \in DOMAIN TopScope'.bindings]_vars

\* a block failed for a name bound twice in it, a name top binds as well
C5_Witness ==
    /\ result = DuplicateBinding
    /\ frame.decl \in {"rule", "build", "pool"}
    /\ \E i, j \in DOMAIN frame.bindings :
           /\ i < j
           /\ frame.bindings[i].id = frame.bindings[j].id
           /\ Bound(scopes.top, frame.bindings[i].id)

\* the bytes of the first n parts, a variable being what bindings gives it
\* and nothing when bindings does not have it
RECURSIVE Expansion(_, _, _)
Expansion(bindings, parts, n) ==
    IF n = 0 THEN <<>>
    ELSE Expansion(bindings, parts, n - 1)
         \o (IF parts[n].kind = "Text" THEN parts[n].text
             ELSE IF parts[n].id \in DOMAIN bindings THEN bindings[parts[n].id]
             ELSE <<>>)

Expanded(bindings, value) ==
    Expansion(bindings, value.value.parts, Len(value.value.parts))

\* C6: Scope::evaluate of a value in any scope is the concatenation, in part
\* order, of the text parts and of the scope's own values of the variable
\* parts, nothing standing for an unbound variable; and the evaluation of a
\* binding's value never fails the parse.
C6_Evaluate ==
    /\ [](IsSome(frame.value) =>
              \A id \in 0..(Len(scopes.arena.items) - 1) :
                  Scope_evaluate(ScopeAt(id), Unwrap(frame.value))
                      = Expanded(ScopeAt(id).bindings, Unwrap(frame.value)))
    /\ [][/\ pc = "binding_newline" /\ consume(LexState, "Newline").ok =>
                 result' = Running
          /\ pc = "top_newline" /\ consume(LexState, "Newline").ok =>
                 result' \in {Running, DuplicateBinding}]_vars

\* a block binding whose value `${d}0` was stored as `0`, d being unbound
C6_Witness ==
    /\ pc = "scope"
    /\ result = Running
    /\ frame.bindings # <<>>
    /\ frame.bindings[Len(frame.bindings)].value = <<"0">>
    /\ DOMAIN TopScope.bindings = {}

\* C7: the value stored for a binding of an indented block is its expansion
\* in the top-level scope alone: a name bound earlier in the block does not
\* count.
C7_NestedBindingsSeeTopOnly ==
    [][pc = "binding_newline" /\ pc' = "scope" =>
           frame'.bindings =
               Append(frame.bindings,
                      Binding_new(Unwrap(frame.identifier),
                                  Expanded(TopScope.bindings, Unwrap(frame.value))))]_vars

\* a block bound d to 5 and then stored `$d` as the empty value, top not
\* binding d
C7_Witness ==
    /\ pc = "scope"
    /\ Len(frame.bindings) = 2
    /\ frame.bindings[1].value = <<"5">>
    /\ frame.bindings[2].value = <<>>
    /\ W_depth \in DOMAIN table.hash
    /\ frame.bindings[2].id = table.hash[W_depth]
    /\ DOMAIN TopScope.bindings = {}

PoolLine == W_pool \o SP \o <<"p">> \o NL

\* C8: a top-level binding is stored as its expansion in the top-level scope
\* as it is when the binding is parsed; afterwards no stored value changes:
\* not a block's scope, not a declaration, and not a top-level value while
\* the parse goes on.  So `depth = $d` before `d = -23` is a pool of depth
\* 0, and after it the parse fails.
C8_EagerExpansion ==
    /\ [][pc = "top_newline" /\ pc' = "decl" =>
              TopScope'.bindings[Unwrap(frame.identifier)]
                  = Expanded(TopScope.bindings, Unwrap(frame.value))]_vars
    /\ [][/\ \A id \in ChildIds : ScopeAt(id)' = ScopeAt(id)
          /\ SubSeq(declarations', 1, Len(declarations)) = declarations
          /\ result'.status # "Err" =>
                 \A n \in DOMAIN TopScope.bindings :
                     TopScope'.bindings[n] = TopScope.bindings[n]]_vars
    /\ [](pc = "done" /\ input = PoolLine \o Depth(<<"$", "d">>) \o TopD(<<"-", "2", "3">>) =>
              /\ result = Ok
              /\ declarations = <<[kind |-> "Pool", name |-> 0, depth |-> Zero]>>)
    /\ [](pc = "done" /\ input = TopD(<<"-", "2", "3">>) \o PoolLine \o Depth(<<"$", "d">>) =>
              result = Err(PE_PoolDepthInvalid))

\* the pool of `depth = $d` was stored with depth 0 and d was bound afterwards
C8_Witness ==
    /\ result = Ok
    /\ Len(declarations) = 1
    /\ declarations[1].kind = "Pool"
    /\ declarations[1].depth = Zero
    /\ \E n \in DOMAIN TopScope.bindings : TopScope.bindings[n] = <<"-", "2", "3">>

\* the place where parse_pool looks at the scope of the block
PoolStep == pc = "scope_done" /\ frame.decl = "pool"

PoolScope == ScopeAt(Unwrap(frame.scope))

\* the scope holds exactly one binding, named depth
DepthOnly(scope) ==
    /\ W_depth \in DOMAIN table.hash
    /\ DOMAIN scope.bindings = {table.hash[W_depth]}

DepthValue(scope) == scope.bindings[table.hash[W_depth]]

AllDigits(v) == \A i \in DOMAIN v : v[i] \in Digit

RECURSIVE StripZeros(_)
StripZeros(v) == IF Len(v) > 1 /\ v[1] = "0" THEN StripZeros(Tail(v)) ELSE v

\* the number a string of digits denotes; the empty string stands for 0
Denoted(v) == IF v = <<>> THEN Zero ELSE StripZeros(v)

FitsUsize(v) == ~NumeralGt(Denoted(v), USIZE_MAX)

PoolAdded(v) ==
    /\ result' = Running
    /\ declarations' = Append(declarations,
                              [kind |-> "Pool", name |-> Unwrap(frame.name),
                               depth |-> Denoted(v)])

\* C9 as claimed: a pool whose block is one binding named depth with an empty
\* or all-digit value parses to a Pool of the depth denoted.
C9_PoolDepth_Claimed ==
    [][PoolStep /\ DepthOnly(PoolScope) /\ AllDigits(DepthValue(PoolScope)) =>
           PoolAdded(DepthValue(PoolScope))]_vars

\* C9: a pool whose block is one binding named depth with an empty value, or
\* an all-digit value that fits a 64-bit usize, parses to a Pool of the depth
\* denoted.
C9_PoolDepth ==
    [][(/\ PoolStep
        /\ DepthOnly(PoolScope)
        /\ AllDigits(DepthValue(PoolScope))
        /\ FitsUsize(DepthValue(PoolScope))) =>
           PoolAdded(DepthValue(PoolScope))]_vars

\* the pool of `depth = $d` after `d = 23` was added with depth 23
C9_Witness ==
    /\ Len(declarations) = 1
    /\ declarations[1].kind = "Pool"
    /\ declarations[1].depth = <<"2", "3">>
    /\ \E n \in DOMAIN TopScope.bindings : TopScope.bindings[n] = <<"2", "3">>

\* one or more digits, or `+` and one or more digits
SignedDigits(v) ==
    /\ v # <<>>
    /\ IF v[1] = "+" THEN Len(v) > 1 /\ AllDigits(Tail(v)) ELSE AllDigits(v)

\* C10 as claimed: a pool whose block is anything but one binding named depth
\* with an empty or all-digit value fails with PoolDepthInvalid.
C10_PoolDepthInvalid_Claimed ==
    [][PoolStep /\ ~(DepthOnly(PoolScope) /\ AllDigits(DepthValue(PoolScope))) =>
           result' = Err(PE_PoolDepthInvalid)]_vars

\* C10: a pool whose block is anything but one binding named depth with a
\* value that is empty or is digits after at most one `+` fails with
\* PoolDepthInvalid.
C10_PoolDepthInvalid ==
    [][PoolStep /\ ~(/\ DepthOnly(PoolScope)
                     /\ \/ DepthValue(PoolScope) = <<>>
                        \/ SignedDigits(DepthValue(PoolScope))) =>
           result' = Err(PE_PoolDepthInvalid)]_vars

\* a pool failed for the trailing space of its depth
C10_Witness ==
    /\ result = Err(PE_PoolDepthInvalid)
    /\ frame.decl = "pool"
    /\ IsSome(frame.scope)
    /\ DepthOnly(PoolScope)
    /\ DepthValue(PoolScope) = <<"2", "3", " ">>

\* C11: a build line goes past its outputs only with one output or more,
\* and past the implicit outputs after a `|` only with one or more of them;
\* with an empty list the parse fails there.
C11_BuildOutputsRequired ==
    [][/\ pc = "build_colon" /\ frame.outputs = <<>> =>
              result'.status = "Err"
       /\ pc = "build_implicit_colon" /\ frame.implicit_outputs = <<>> =>
              result'.status = "Err"]_vars

\* C12: a default line is accepted only with one target or more; with none
\* the parse fails at its newline.
C12_DefaultTargetsRequired ==
    [][pc = "default_newline" /\ frame.targets = <<>> =>
           result'.status = "Err"]_vars

\* the token the parser's next call of lex() returns
NextTok == lex(LexState)

NextIs(kind) == NextTok.t = "Token" /\ NextTok.tok.kind = kind

\* the parse goes on at place p with the same locals
GoesOn(p) == pc' = p /\ frame' = frame /\ result' = Running

Fails == result'.status = "Err"

IsPrefix(s, t) == Len(s) <= Len(t) /\ SubSeq(t, 1, Len(s)) = s

\* C13: after the rule name and the inputs of a build line the parser takes
\* Newline, or `|` and implicit inputs and then Newline or `||`, or `||` and
\* order inputs and then Newline, and nothing else: after the order inputs
\* only Newline is taken, so a `|` clause after a `||` clause fails.  The
\* implicit_inputs list grows in the `|` clause only, the order_inputs list
\* in the `||` clause only, and the Build added holds both as they are.
C13_BuildEndings ==
    [][/\ pc = "build_end" =>
              IF NextIs("Newline") THEN GoesOn("scope")
              ELSE IF NextIs("Pipe") THEN GoesOn("build_implicit_inputs")
              ELSE IF NextIs("PipePipe") THEN GoesOn("build_order_inputs")
              ELSE Fails
       /\ pc = "build_implicit_end" =>
              IF NextIs("Newline") THEN GoesOn("scope")
              ELSE IF NextIs("PipePipe") THEN GoesOn("build_order_inputs")
              ELSE Fails
       /\ pc = "build_newline" =>
              IF NextIs("Newline") THEN GoesOn("scope") ELSE Fails
       /\ frame.decl = "build" /\ frame'.decl = "build" =>
              /\ IsPrefix(frame.implicit_inputs, frame'.implicit_inputs)
              /\ IsPrefix(frame.order_inputs, frame'.order_inputs)
              /\ pc # "build_implicit_inputs" =>
                     frame'.implicit_inputs = frame.implicit_inputs
              /\ pc # "build_order_inputs" =>
                     frame'.order_inputs = frame.order_inputs
       /\ pc = "scope_done" /\ frame.decl = "build" =>
              /\ Len(declarations') = Len(declarations) + 1
              /\ declarations'[Len(declarations')].implicit_inputs = frame.implicit_inputs
              /\ declarations'[Len(declarations')].order_inputs = frame.order_inputs]_vars

\* a Build was added with implicit input j and order input k
C13_Witness ==
    \E n \in DOMAIN declarations :
        /\ declarations[n].kind = "Build"
        /\ Len(declarations[n].implicit_inputs) = 1
        /\ declarations[n].implicit_inputs[1].value.parts = <<Text(<<"j">>)>>
        /\ Len(declarations[n].order_inputs) = 1
        /\ declarations[n].order_inputs[1].value.parts = <<Text(<<"k">>)>>

\* at a decision point of parse_build: a token of kinds goes on, any other
\* token fails with UnexpectedToken of its kind
Decides(kinds) ==
    /\ NextTok.t = "Token"
    /\ IF NextTok.tok.kind \in kinds
       THEN result' = Running
       ELSE result' = Err(PE_UnexpectedToken(NextTok.tok.kind))

\* the input has ended
AtEnd == peek(current.end) = NoByte

\* C14 as claimed: at the three decision points of parse_build a token that
\* is none of the alternatives fails with UnexpectedToken of its kind, and
\* the end of the input where the parser is to decide fails with
\* UnexpectedEof.
C14_BuildDecisions_Claimed ==
    [][/\ pc = "build_colon" /\ NextTok.t = "Token" => Decides({"Pipe", "Colon"})
       /\ pc = "build_end" /\ NextTok.t = "Token" =>
              Decides({"Newline", "Pipe", "PipePipe"})
       /\ pc = "build_implicit_end" /\ NextTok.t = "Token" =>
              Decides({"Newline", "PipePipe"})
       /\ AtEnd /\ pc \in {"build_outputs", "build_colon", "build_inputs", "build_end",
                           "build_implicit_inputs", "build_implicit_end"} =>
              result' = Err(PE_UnexpectedEof)]_vars

\* C14: at the three decision points of parse_build the parser always finds
\* a token, and one that is none of the alternatives fails with
\* UnexpectedToken of its kind; the end of the input is met by the scan of
\* the target list before the decision point, which fails with
\* LexError(UnknownToken).
C14_BuildDecisions ==
    [][/\ pc = "build_colon" => Decides({"Pipe", "Colon"})
       /\ pc = "build_end" => Decides({"Newline", "Pipe", "PipePipe"})
       /\ pc = "build_implicit_end" => Decides({"Newline", "PipePipe"})
       /\ AtEnd /\ pc \in {"build_outputs", "build_implicit_outputs", "build_inputs",
                           "build_implicit_inputs", "build_order_inputs"} =>
              result' = Err(PE_LexError("UnknownToken"))]_vars

\* the `:` after the rule name and the inputs failed the parse
C14_Witness ==
    /\ result = Err(PE_UnexpectedToken("Colon"))
    /\ frame.decl = "build"
    /\ IsSome(frame.rule)
    /\ frame.inputs # <<>>
    /\ frame.implicit_inputs = <<>>

\* C15: the step that fails adds no declaration, no scope and no binding,
\* and once parse has returned nothing changes any more: no byte is
\* consumed and the result stays what it is; parse returns Ok only with the
\* cursor at the end of the input.
C15_FirstFailureEndsParse ==
    [][/\ result = Running
       /\ Fails =>
              /\ declarations' = declarations
              /\ Len(scopes'.arena.items) = Len(scopes.arena.items)
              /\ \A id \in 0..(Len(scopes.arena.items) - 1) :
                     DOMAIN ScopeAt(id)'.bindings = DOMAIN ScopeAt(id).bindings
              /\ frame'.bindings = frame.bindings
       /\ result' = Ok => current'.end = Len(input) /\ current'.start = Len(input)]_vars

\* a parse that failed after its first declaration, with input left over
C15_Witness ==
    /\ result.status = "Err"
    /\ pc = "done"
    /\ Len(declarations) = 1
    /\ current.end < Len(input)

\* the first word of the line that starts at byte p of the input
RECURSIVE WordFrom(_)
WordFrom(p) ==
    IF p > Len(input) \/ input[p] \in {" ", "\n", ":", "|", "=", "#"} THEN <<>>
    ELSE <<input[p]>> \o WordFrom(p + 1)

\* the start of the line after the one byte p is in; Len(input) + 1 if none
RECURSIVE NextLine(_)
NextLine(p) ==
    IF p > Len(input) THEN p
    ELSE IF input[p] = "\n" THEN p + 1
    ELSE NextLine(p + 1)

LineKind(word) ==
    IF word = W_rule THEN <<"Rule">>
    ELSE IF word = W_build THEN <<"Build">>
    ELSE IF word = W_default THEN <<"Default">>
    ELSE IF word = W_pool THEN <<"Pool">>
    ELSE <<>>

\* the kinds of the declarations the input holds from byte p on, in order
RECURSIVE SourceDecls(_)
SourceDecls(p) ==
    IF p > Len(input) THEN <<>>
    ELSE LineKind(WordFrom(p)) \o SourceDecls(NextLine(p))

\* C16: after a successful parse the Declarations sequence has one entry for
\* every line of the input that starts with rule, build, default or pool, of
\* that kind and in the order of the lines; any other line adds none.
C16_OneEntryPerDeclaration ==
    result = Ok =>
        /\ Len(declarations) = Len(SourceDecls(1))
        /\ \A n \in DOMAIN declarations : declarations[n].kind = SourceDecls(1)[n]

\* a successful parse of a comment, blank line or binding and a build line
C16_Witness ==
    /\ result = Ok
    /\ Len(declarations) = 1
    /\ declarations[1].kind = "Build"
    /\ input[1] \in {"#", "\n", "x"}

\* the bytes l are a lexeme of a token of this kind
LexemeFits(kind, l) ==
    IF kind = "Equal" THEN l = <<"=">>
    ELSE IF kind = "Colon" THEN l = <<":">>
    ELSE IF kind = "Pipe" THEN l = <<"|">>
    ELSE IF kind = "PipePipe" THEN l = <<"|", "|">>
    ELSE IF kind = "Newline" THEN l \in {<<"\n">>, <<"\r", "\n">>}
    ELSE IF kind = "Indent" THEN l # <<>> /\ \A i \in DOMAIN l : l[i] = " "
    ELSE l # <<>> /\ \A i \in DOMAIN l : is_identifier(l[i])

\* the lexeme ends where the token does: the next byte does not go on with it
LexemeEnds(kind, e) ==
    IF kind = "Pipe" THEN peek(e) # "|"
    ELSE IF kind = "Indent" THEN peek(e) # " "
    ELSE IF kind \in {"Equal", "Colon", "PipePipe", "Newline"} THEN TRUE
    ELSE ~is_identifier(peek(e))

TokenStart(n) == calls[n].range[1]

TokenEnd(n) == calls[n].range[2]

OneLine == <<"b", "u", "i", "l", "d", "d", "i", "r", " ", "=", " ", "b", "\n">>

\* C17: the range of every token returned is the half-open byte range of its
\* lexeme: it lies in the input, its bytes are the bytes of a token of that
\* kind and of nothing else (no skipped space), it starts at or after the
\* end of the token before it; the cursor has start <= end <= input length
\* between calls; and `builddir = b\n` gives [0,8), [9,10), [11,12), [12,13).
C17_TokenRanges ==
    /\ current.start <= current.end
    /\ current.end <= Len(input)
    /\ \A n \in DOMAIN calls :
           /\ 0 <= TokenStart(n)
           /\ TokenStart(n) < TokenEnd(n)
           /\ TokenEnd(n) <= Len(input)
           /\ TokenEnd(n) <= current.start
           /\ n > 1 => TokenEnd(n - 1) <= TokenStart(n)
           /\ LexemeFits(calls[n].kind, SubSeq(input, TokenStart(n) + 1, TokenEnd(n)))
           /\ LexemeEnds(calls[n].kind, TokenEnd(n))
    /\ input = OneLine /\ result = Ok =>
           /\ Len(calls) = 4
           /\ [n \in DOMAIN calls |-> calls[n].range]
                  = << <<0, 8>>, <<9, 10>>, <<11, 12>>, <<12, 13>> >>

\* `builddir = b\n` was lexed to its end
C17_Witness ==
    /\ input = OneLine
    /\ result = Ok
    /\ Len(calls) = 4
    /\ calls[2].kind = "Equal"

\* the offset where the bytes between token n - 1 and token n start
GapStart(n) == IF n = 1 THEN 0 ELSE TokenEnd(n - 1)

\* the Newline tokens returned before token n
NewlinesBefore(n) == Cardinality({m \in 1..(n - 1) : calls[m].kind = "Newline"})

\* offset p is a newline that ends a comment skipped before token m: a
\* newline between two tokens with a `#` before it between the same tokens
EndsComment(p, m) ==
    /\ GapStart(m) <= p
    /\ p < TokenStart(m)
    /\ input[p + 1] = "\n"
    /\ \E q \in GapStart(m)..(p - 1) : input[q + 1] = "#"

\* the comments skipped before token n
CommentsBefore(n) ==
    Cardinality({p \in 0..(TokenStart(n) - 1) : \E m \in 1..n : EndsComment(p, m)})

FourLines == <<"a", "\n", "a", "\n", "a", "\n", "a", "\n">>

RECURSIVE AfterComments(_)
AfterComments(e) ==
    IF peek(e) = "#" /\ \E q \in e..(Len(input) - 1) : input[q + 1] = "\n"
    THEN AfterComments(NextLine(e + 1) - 1)
    ELSE e

\* the bytes a generic token starts with
GenericAlphabet ==
    Lower \cup Upper \cup Digit \cup {"_", "-", ".", "=", ":", "|", " ", "\n", "#"}

\* the byte at offset e is no start of a generic token
OutsideAlphabet(e) ==
    /\ e < Len(input)
    /\ input[e + 1] \notin GenericAlphabet
    /\ ~(input[e + 1] = "\r" /\ peek(e + 1) = "\n")

\* C19: a call of lex() or lex_decl() fails with LexError::UnknownToken
\* whenever the byte its token starts with is outside the generic alphabet:
\* a punctuation byte of tests::unknown_characters, `$`, or a `\r` that no
\* `\n` follows.
C19_UnknownToken ==
    [][pc = "decl" /\ OutsideAlphabet(AfterComments(current.end)) =>
           result' = Err("UnknownToken")]_vars

\* lex() failed at a `$` after it had returned a token
C19_Witness ==
    /\ result = Err("UnknownToken")
    /\ calls # <<>>
    /\ peek(current.end) = "$"

\* the declaration kind of each keyword
Keywords ==
    { <<W_default, "Default">>, <<W_rule, "Rule">>, <<W_build, "Build">>,
      <<W_pool, "Pool">>, <<W_include, "Include">>, <<W_subninja, "Subninja">> }

\* the kind lex_decl is to give an Identifier with lexeme l
KeywordKind(l) ==
    IF \E k \in Keywords : k[1] = l
    THEN (CHOOSE k \in Keywords : k[1] = l)[2]
    ELSE "Identifier"

\* d is what lex_decl is to return where lex returns r
Reclassified(r, d) ==
    IF r.t = "Eof" THEN d.t = "Eof"
    ELSE IF r.t = "Err" THEN d.t = "Err" /\ d.error = r.error
    ELSE IF r.tok.kind = "Newline" THEN d.t = "Token" /\ d.tok = r.tok
    ELSE IF r.tok.kind = "Identifier"
    THEN d.t = "Token" /\ d.tok = [r.tok EXCEPT !.kind = KeywordKind(lexeme(r.tok))]
    ELSE d.t = "Err" /\ d.error = "InvalidDeclStart"

\* C20: wherever the caller stands, lex_decl returns the token of lex()
\* reclassified: Newline as it is, an Identifier with the kind of the keyword
\* its lexeme is, or as it is when its lexeme is no keyword, no token at the
\* end of the input, and InvalidDeclStart for a token of another kind; so
\* every token of a keyword kind the caller got has that keyword as lexeme.
C20_LexDecl ==
    /\ pc = "decl" => Reclassified(lex(LexState), lex_decl(LexState))
    /\ \A n \in DOMAIN calls :
           calls[n].kind \notin {"Newline", "Identifier", "Equal", "Colon", "Pipe",
                                 "PipePipe", "Indent"} =>
               <<lexeme(calls[n]), calls[n].kind>> \in Keywords

\* lex_decl returned a Subninja token and then failed on a token that starts
\* no declaration
C20_Witness ==
    /\ result = Err("InvalidDeclStart")
    /\ \E n \in DOMAIN calls : calls[n].kind = "Subninja"


EmptyValue == frame.value # None /\ Unwrap(frame.value).value.parts = <<>>

NewScope == Arena_get(scopes'.arena, Len(scopes.arena.items))

\* C21: a binding whose `=` is followed by the newline parses: parse_value
\* gives a present value without parts; parse_binding and
\* parse_top_level_binding make of it a binding with the empty byte sequence;
\* in the scope built from the block, and in the top scope after the push,
\* the single-scope lookup of the name gives the empty value, not absent, and
\* the binding is counted in the size.
C21_EmptyBinding ==
    [][ /\ (pc \in {"binding_value", "top_value"} /\ peek(current.end) = "\n")
            => /\ result' = Running
               /\ frame'.value = Some(ast_Value_new([parts |-> <<>>]))
        /\ (pc = "binding_newline" /\ EmptyValue /\ NextIs("Newline"))
            => frame'.bindings =
                   Append(frame.bindings, Binding_new(Unwrap(frame.identifier), <<>>))
        /\ (pc = "scope" /\ ~try_indent(LexState) /\ ~HasDuplicate(frame.bindings))
            => /\ \A i \in DOMAIN frame.bindings :
                      Scope_get(NewScope, frame.bindings[i].id)
                          = Some(frame.bindings[i].value)
               /\ Scope_size(NewScope) = Len(frame.bindings)
        /\ (/\ pc = "top_newline" /\ EmptyValue /\ NextIs("Newline")
            /\ Scope_get(TopScope, Unwrap(frame.identifier)) = None)
            => /\ Scope_get(TopScope', Unwrap(frame.identifier)) = Some(<<>>)
               /\ Scope_get(TopScope', Unwrap(frame.identifier)) # None
               /\ Scope_size(TopScope') = Scope_size(TopScope) + 1 ]_vars

C21_Witness ==
    /\ result = Ok
    /\ \E id \in ChildIds : \E n \in Symbols :
           /\ Scope_get(ScopeAt(id), n) = Some(<<>>)
           /\ Scope_size(ScopeAt(id)) = 1

LastByte == input[Len(input)]

\* C22: parse returns Ok(File) only when the input is empty or its last byte
\* is `\n`; on an input that ends elsewhere (inside a value, a target, a
\* declaration header or a comment) the parse ends with an error.
C22_NewlineTerminated ==
    /\ result = Ok => input = <<>> \/ LastByte = "\n"
    /\ pc = "done" /\ input # <<>> /\ LastByte # "\n" => result.status = "Err"

C22_Witness ==
    /\ pc = "done"
    /\ result = Err(PE_LexError("UnknownToken"))
    /\ input # <<>>
    /\ LastByte = "1"


\* C23 as claimed: the end of the current span never decreases.
C23_Cursor_Claimed == [][current'.end >= current.end]_vars

Skipping == pc \in {"skip", "skip_dollar", "skip_cr"}

\* skip_whitespace moves the cursor back to the `$` it has advanced past
MovesBack ==
    /\ pc \in {"skip_dollar", "skip_cr"}
    /\ pc' = "decl"
    /\ current'.end = Unwrap(frame.dollar)
    /\ peek(current'.end) = "$"
    /\ current.end - current'.end = (IF pc = "skip_dollar" THEN 1 ELSE 2)

\* C23: no call moves the cursor to the left of where it found it, and the
\* only step that decreases the end of the span is the one of
\* skip_whitespace that, having advanced past a `$` (and a `\r` after it)
\* that begins no escaped space or newline, moves the cursor 1 or 2 bytes
\* back to that `$`; a skip_whitespace that started at offset e returns
\* with the cursor at the end of the whitespace that starts at e.
C23_Cursor ==
    [][ /\ current'.end >= current.end \/ MovesBack
        /\ Skipping => current'.end >= frame.from
        /\ (Skipping /\ pc' = "decl")
            => current'.end = skip_end(frame.from) /\ current'.start = current'.end ]_vars

C23_Witness ==
    /\ pc = "decl"
    /\ calls # <<>>
    /\ frame # Frame_empty
    /\ frame.dollar = Some(current.end)
    /\ peek(current.end + 1) = "a"


\* the number of escapes `$x` that begin at the offsets p..q-1, the bytes read
\* from left to right (the byte after a `$` begins no escape)
RECURSIVE Escapes(_, _, _)
Escapes(p, q, x) ==
    IF p >= q THEN 0
    ELSE IF peek(p) = "$"
    THEN (IF peek(p + 1) = x THEN 1 ELSE 0) + Escapes(p + 2, q, x)
    ELSE Escapes(p + 1, q, x)

PartsOf(c) == IF c.res = None THEN <<>> ELSE Unwrap(c.res).parts

Literals(c, x) == Cardinality({i \in DOMAIN PartsOf(c) : PartsOf(c)[i] = Text(<<x>>)})

Scanned(n) == calls[n].op \in {"lex_value", "lex_target"} /\ calls[n].out = "Value"

\* C24: every escape `$ `, `$:` and `$$` that a call moves the cursor over
\* gives one literal part: lex() skips none as whitespace after its token; a
\* target has as many literal spaces, colons and dollars as escapes of each lie
\* between the cursor before and after the call; a value has as many literal
\* dollars, and no fewer literal spaces and colons; a value or target that
\* begins with an escape has the escaped byte as its first part.
C24_EscapedLiterals ==
    \A n \in DOMAIN calls : \A x \in {" ", ":", "$"} :
        /\ (calls[n].op = "lex" /\ calls[n].out = "Token")
            => Escapes(calls[n].res.range[2], calls[n].to, x) = 0
        /\ (Scanned(n) /\ calls[n].op = "lex_target")
            => Literals(calls[n], x) = Escapes(calls[n].from, calls[n].to, x)
        /\ (Scanned(n) /\ calls[n].op = "lex_value")
            => /\ Literals(calls[n], x) >= Escapes(calls[n].from, calls[n].to, x)
               /\ Literals(calls[n], "$") = Escapes(calls[n].from, calls[n].to, "$")
        /\ (Scanned(n) /\ peek(calls[n].from) = "$" /\ peek(calls[n].from + 1) = x)
            => PartsOf(calls[n]) # <<>> /\ PartsOf(calls[n])[1] = Text(<<x>>)


\* C25: every Indent token begins at offset 0 or directly after a `\n` byte,
\* and is the first token returned or directly preceded by a Newline token;
\* two Indent tokens never follow each other.
C25_IndentAfterNewline ==
    \A n \in DOMAIN calls :
        calls[n].kind = "Indent" =>
            /\ TokenStart(n) = 0 \/ input[TokenStart(n)] = "\n"
            /\ n = 1 \/ calls[n - 1].kind = "Newline"
            /\ n > 1 => calls[n - 1].kind # "Indent"


\* the bytes at offsets a..b-1 are spaces, escaped spaces and line
\* continuations
RECURSIVE IsSkipped(_, _)
IsSkipped(a, b) ==
    IF a >= b THEN a = b
    ELSE IF peek(a) = " " THEN IsSkipped(a + 1, b)
    ELSE IF peek(a) = "$" /\ peek(a + 1) \in {"\n", " "} THEN IsSkipped(a + 2, b)
    ELSE IF peek(a) = "$" /\ peek(a + 1) = "\r" /\ peek(a + 2) = "\n" THEN IsSkipped(a + 3, b)
    ELSE FALSE

\* a space, an escaped space or a line continuation begins at offset b
Skippable(b) ==
    \/ peek(b) = " "
    \/ peek(b) = "$" /\ peek(b + 1) \in {"\n", " "}
    \/ peek(b) = "$" /\ peek(b + 1) = "\r" /\ peek(b + 2) = "\n"

Continued(n) ==
    /\ n > 1
    /\ calls[n - 1].kind # "Newline"
    /\ \E p \in TokenEnd(n - 1)..(TokenStart(n) - 1) :
           /\ peek(p) = "$"
           /\ peek(p + 1) = "\n" \/ (peek(p + 1) = "\r" /\ peek(p + 2) = "\n")

\* C27: after a token other than Newline the cursor stands behind all the
\* spaces and line continuations (`$` then `\n` or `\r\n`) that follow the
\* token, the spaces after a continuation included; a token that follows
\* with no comment in between starts there, reports the line of the token
\* before it, and its range holds its lexeme in the input as it is;
\* `builddir = $\n    b\n` gives [0,8), [9,10), [17,18), [18,19), all on line
\* 1, and `builddir = $\r\nb\n` gives [0,8), [9,10), [14,15), [15,16).
C27_LineContinuation ==
    /\ (pc = "decl" /\ calls # <<>> /\ calls[Len(calls)].kind # "Newline")
        => /\ IsSkipped(TokenEnd(Len(calls)), current.end)
           /\ ~Skippable(current.end)
           /\ line = calls[Len(calls)].line
    /\ \A n \in DOMAIN calls :
           (/\ n > 1
            /\ calls[n - 1].kind # "Newline"
            /\ \A p \in TokenEnd(n - 1)..(TokenStart(n) - 1) : peek(p) # "#")
           => /\ IsSkipped(TokenEnd(n - 1), TokenStart(n))
              /\ calls[n].line = calls[n - 1].line
              /\ LexemeFits(calls[n].kind, SubSeq(input, TokenStart(n) + 1, TokenEnd(n)))
    /\ (input = EscapedNewline /\ result = Ok)
        => /\ [n \in DOMAIN calls |-> calls[n].range]
                  = << <<0, 8>>, <<9, 10>>, <<17, 18>>, <<18, 19>> >>
           /\ [n \in DOMAIN calls |-> calls[n].line] = <<1, 1, 1, 1>>
    /\ (input = EscapedCrNewline /\ result = Ok)
        => /\ [n \in DOMAIN calls |-> calls[n].range]
                  = << <<0, 8>>, <<9, 10>>, <<14, 15>>, <<15, 16>> >>
           /\ [n \in DOMAIN calls |-> calls[n].line] = <<1, 1, 1, 1>>

\* a token after a continuation and the spaces that follow it
C27_Witness ==
    \E n \in DOMAIN calls :
        /\ Continued(n)
        /\ peek(TokenStart(n) - 1) = " "
        /\ calls[n].line = 1


\* C26: repeated lex() gives the same sequence of token kinds on an input and
\* on the input without the bytes of its comments.
C26_CommentsDiscarded ==
    (pc = "done" /\ frame # Frame_empty) => Kinds(calls) = frame.kinds


NoOffset == 0 - 1

\* the offset of the first `\n` at or after offset p that no `$` escapes (a
\* `$` takes the byte after it, and `\r\n` as one), or NoOffset
RECURSIVE UnescapedNewline(_)
UnescapedNewline(p) ==
    IF peek(p) = NoByte THEN NoOffset
    ELSE IF peek(p) = "\n" THEN p
    ELSE IF peek(p) = "$"
    THEN IF peek(p + 1) = "\r" /\ peek(p + 2) = "\n"
         THEN UnescapedNewline(p + 3)
         ELSE UnescapedNewline(p + 2)
    ELSE UnescapedNewline(p + 1)

LastCall == calls[Len(calls)]

CallBefore == calls[Len(calls) - 1]

\* C28: a lex_value that succeeds returns a value (never `None`) and leaves
\* the cursor on the first unescaped `\n` after the offset it started from;
\* the lex() called next returns the Newline token of that byte; a lex_value
\* that fails fails with UnknownToken, and it fails whenever no unescaped `\n`
\* follows the offset it started from.
C28_ValueStopsAtNewline ==
    /\ (calls # <<>> /\ LastCall.op = "lex_value")
        => /\ LastCall.out = "Value"
               => /\ LastCall.res # None
                  /\ LastCall.to = UnescapedNewline(LastCall.from)
                  /\ peek(LastCall.to) = "\n"
                  /\ current = [start |-> LastCall.to, end |-> LastCall.to]
                  /\ NextIs("Newline")
           /\ LastCall.out = "Err" => LastCall.res = "UnknownToken"
           /\ UnescapedNewline(LastCall.from) = NoOffset => LastCall.out = "Err"
    /\ (Len(calls) > 1 /\ Scanned(Len(calls) - 1)
        /\ CallBefore.op = "lex_value" /\ LastCall.op = "lex")
        => /\ LastCall.out = "Token"
           /\ LastCall.res.kind = "Newline"
           /\ LastCall.res.range = <<CallBefore.to, CallBefore.to + 1>>

C28_Witness ==
    /\ Len(calls) > 1
    /\ Scanned(Len(calls) - 1)
    /\ CallBefore.op = "lex_value"
    /\ PartsOf(CallBefore) # <<>>
    /\ LastCall.op = "lex"
    /\ LastCall.res.kind = "Newline"


TargetStops == {"|", ":", " ", "\n"}

ListEnds == {"Pipe", "PipePipe", "Colon", "Newline"}

TwoTargets == <<"a", " ", ".", "\n">>

OneTarget(b) == Some([parts |-> <<Text(<<b>>)>>])

\* C29: a lex_target that succeeds returns `no target` exactly when the byte
\* it started on is one it stops at, that is when it accumulated no part; a
\* target returned has parts and takes bytes; `no target` returned at a `|`,
\* `:` or `\n` leaves the cursor on that byte, and the lex() called next
\* returns the Pipe, PipePipe, Colon or Newline token that begins there; the
\* spaces after a target are consumed with it.  On `a .\n` three lex_target
\* calls return `a`, `.` and `no target`, and lex() then returns Newline.
C29_TargetLists ==
    /\ (calls # <<>> /\ LastCall.op = "lex_target" /\ LastCall.out = "Value")
        => /\ LastCall.res = None <=> peek(LastCall.from) \in TargetStops
           /\ LastCall.res # None
               => /\ Unwrap(LastCall.res).parts # <<>>
                  /\ LastCall.to > LastCall.from
           /\ (LastCall.res = None /\ peek(LastCall.from) # " ")
               => /\ LastCall.to = LastCall.from
                  /\ current = [start |-> LastCall.from, end |-> LastCall.from]
                  /\ NextTok.t = "Token"
                  /\ NextTok.tok.kind \in ListEnds
                  /\ NextTok.tok.range[1] = LastCall.from
           /\ peek(LastCall.to) # " "
    /\ (/\ Len(calls) > 1 /\ Scanned(Len(calls) - 1)
        /\ CallBefore.op = "lex_target" /\ CallBefore.res = None
        /\ peek(CallBefore.from) # " " /\ LastCall.op = "lex")
        => /\ LastCall.out = "Token"
           /\ LastCall.res.kind \in ListEnds
           /\ LastCall.res.range[1] = CallBefore.to
    /\ (input = TwoTargets /\ Len(calls) = 4
        /\ \A n \in 1..3 : calls[n].op = "lex_target")
        => /\ [n \in 1..3 |-> calls[n].res] = <<OneTarget("a"), OneTarget("."), None>>
           /\ calls[4].op = "lex" => calls[4].out = "Token" /\ calls[4].res.kind = "Newline"

\* a target, then `no target`, then the token that ends the list
C29_Witness ==
    /\ Len(calls) > 2
    /\ calls[Len(calls) - 2].op = "lex_target"
    /\ calls[Len(calls) - 2].out = "Value"
    /\ calls[Len(calls) - 2].res # None
    /\ CallBefore.op = "lex_target"
    /\ CallBefore.res = None
    /\ LastCall.op = "lex"
    /\ LastCall.out = "Token"
    /\ LastCall.res.kind \in {"Pipe", "Colon"}


NameBytes == Lower \cup Upper \cup Digit \cup {"_", "-"}

BracedBytes == NameBytes \cup {"."}

\* the end of the maximal run of bytes of the set that starts at offset e
RECURSIVE RunEnd(_, _)
RunEnd(e, set) == IF peek(e) \in set THEN RunEnd(e + 1, set) ELSE e

StopsOf(c) == IF c.op = "lex_value" THEN {"\n"} ELSE TargetStops

\* the first part of what call c returned is the variable of this name
FirstIsVariable(c, name) ==
    /\ PartsOf(c) # <<>>
    /\ PartsOf(c)[1].kind = "Variable"
    /\ table.ids[PartsOf(c)[1].id + 1] = name

\* the variable is the only part the bytes before offset q gave: the value
\* ends there, or its second part is what the byte at q gives
FollowedBy(c, q) ==
    IF peek(q) \in StopsOf(c) THEN Len(PartsOf(c)) = 1
    ELSE /\ Len(PartsOf(c)) > 1
         /\ peek(q) # "$" => PartsOf(c)[2] = Text(<<peek(q)>>)

VariableIds(c) == {PartsOf(c)[i].id : i \in {j \in DOMAIN PartsOf(c) : PartsOf(c)[j].kind = "Variable"}}

BothForms == <<"$", "{", "a", "}", "$", "a", "\n">>

\* C30: a value or target that begins with `${` fails with UnknownToken
\* unless the maximal run of name bytes (with `.`) after it is followed by
\* `}`, and otherwise begins with exactly one Variable part, of the name
\* between the braces; one that begins with `$` and a bare name byte begins
\* with exactly one Variable part, of the maximal run of bare name bytes after
\* the `$`; Variable parts have the same Identifier exactly when their names
\* are the same bytes, and `${a}$a` gives the same Identifier twice.
C30_Variables ==
    (calls # <<>> /\ LastCall.op \in {"lex_value", "lex_target"})
    => /\ (peek(LastCall.from) = "$" /\ peek(LastCall.from + 1) = "{")
           => /\ peek(RunEnd(LastCall.from + 2, BracedBytes)) # "}"
                  => LastCall.out = "Err" /\ LastCall.res = "UnknownToken"
              /\ (peek(RunEnd(LastCall.from + 2, BracedBytes)) = "}" /\ LastCall.out = "Value")
                  => /\ FirstIsVariable(LastCall,
                                        SubSeq(input, LastCall.from + 3,
                                               RunEnd(LastCall.from + 2, BracedBytes)))
                     /\ FollowedBy(LastCall, RunEnd(LastCall.from + 2, BracedBytes) + 1)
       /\ (/\ peek(LastCall.from) = "$" /\ peek(LastCall.from + 1) \in NameBytes
           /\ LastCall.out = "Value")
           => /\ FirstIsVariable(LastCall,
                                 SubSeq(input, LastCall.from + 2,
                                        RunEnd(LastCall.from + 1, NameBytes)))
              /\ FollowedBy(LastCall, RunEnd(LastCall.from + 1, NameBytes))
       /\ LastCall.out = "Value"
           => \A v, w \in VariableIds(LastCall) :
                  v = w <=> table.ids[v + 1] = table.ids[w + 1]
       /\ (input = BothForms /\ Len(calls) = 1 /\ LastCall.op = "lex_value")
           => /\ LastCall.out = "Value"
              /\ PartsOf(LastCall) = <<Variable(0), Variable(0)>>

\* one name in both forms
C30_Witness ==
    /\ input = BothForms
    /\ Len(calls) = 1
    /\ LastCall.op = "lex_value"
    /\ LastCall.out = "Value"
    /\ PartsOf(LastCall) = <<Variable(0), Variable(0)>>
    /\ table.ids = << <<"a">> >>


ScopeIds(SS) == 0..(Len(SS.arena.items) - 1)

\* the number of scopes the chained lookup visits from scope id when no scope
\* binds the name, counted up to fuel + 1
RECURSIVE ChainLength(_, _, _)
ChainLength(SS, id, fuel) ==
    IF fuel = 0 \/ Scopes_get_scope(SS, id).parent = None THEN 1
    ELSE 1 + ChainLength(SS, Unwrap(Scopes_get_scope(SS, id).parent), fuel - 1)

\* the top scope has no parent, every other scope has the top scope as parent
TopIsParent(SS) ==
    /\ SS.top \in ScopeIds(SS)
    /\ \A id \in ScopeIds(SS) :
           /\ Scopes_get_scope(SS, id).parent = (IF id = SS.top THEN None ELSE Some(SS.top))
           /\ ChainLength(SS, id, Len(SS.arena.items)) <= 2

ScopedDeclarations(ds) ==
    Cardinality({n \in DOMAIN ds : ds[n].kind \in {"Rule", "Build", "Pool"}})

\* C31: before and after every step of a parse the top scope has no parent
\* and every other scope has the top scope as parent, so the chained lookup
\* visits at most 2 scopes; only the end of an indented block changes the
\* number of scopes: new_scope adds one scope, with the scopes before it as
\* they were, or fails with DuplicateBinding and adds none; when a rule, build
\* or pool declaration is added there is one scope for each of them besides
\* the top scope.
C31_ScopeParents ==
    [][ /\ TopIsParent(scopes)
        /\ TopIsParent(scopes')
        /\ ~(pc = "scope" /\ ~try_indent(LexState))
            => Len(scopes'.arena.items) = Len(scopes.arena.items)
        /\ (pc = "scope" /\ ~try_indent(LexState))
            => IF HasDuplicate(frame.bindings)
               THEN scopes' = scopes /\ result' = DuplicateBinding
               ELSE /\ Len(scopes'.arena.items) = Len(scopes.arena.items) + 1
                    /\ \A id \in ScopeIds(scopes) :
                           Scopes_get_scope(scopes', id) = Scopes_get_scope(scopes, id)
                    /\ result' = Running
        /\ (Len(declarations') = Len(declarations) + 1
            /\ declarations'[Len(declarations')].kind \in {"Rule", "Build", "Pool"})
            => Len(scopes'.arena.items) = 1 + ScopedDeclarations(declarations') ]_vars

\* two declarations with a scope each
C31_Witness ==
    /\ result = Ok
    /\ Len(scopes.arena.items) = 3
    /\ ScopedDeclarations(declarations) = 2


\* C32: the n-th insert into an arena returns the handle of index n - 1; after
\* every insert Arena::get on each handle returned so far gives the value
\* inserted with it; an insert adds one value and leaves every value stored
\* before at its index.
C32_ArenaHandles ==
    [][ /\ \A n \in DOMAIN calls' :
               /\ calls'[n].id = n - 1
               /\ Arena_get(scopes', calls'[n].id) = calls'[n].value
        /\ Len(scopes'.items) = Len(scopes.items) + 1
        /\ \A id \in 0..(Len(scopes.items) - 1) :
               Arena_get(scopes', id) = Arena_get(scopes, id) ]_vars

\* three different values inserted, the first read back after the others
C32_Witness ==
    /\ Len(calls) = 3
    /\ calls[1].value = "a" /\ calls[2].value = "b" /\ calls[3].value = "c"
    /\ Arena_get(scopes, calls[1].id) = "a"


\* the content-to-symbol map and the symbol-to-content list of a table agree
TableConsistent(T) ==
    /\ Cardinality(DOMAIN T.hash) = Len(T.ids)
    /\ \A b \in DOMAIN T.hash :
           /\ T.hash[b] \in 0..(Len(T.ids) - 1)
           /\ T.ids[T.hash[b] + 1] = b

\* C33: before and after every step of a parse, the one that ends it with an
\* error included, the map and the list of the intern table agree; no step
\* lowers the number of symbols, and every symbol keeps its bytes.
C33_TableGrows ==
    [][ /\ TableConsistent(table)
        /\ TableConsistent(table')
        /\ Len(table'.ids) >= Len(table.ids)
        /\ \A s \in DOMAIN table.ids : table'.ids[s] = table.ids[s] ]_vars

\* a parse that failed after interning three names
C33_Witness ==
    /\ pc = "done"
    /\ result.status = "Err"
    /\ Len(table.ids) >= 3


\* C34: when the push of a top-level binding fails with DuplicateBinding the
\* top scope is as it was before the push: the name has the value it had and
\* the size is the same.
C34_FailedPushKeepsScope ==
    [][ (pc = "top_newline" /\ result' = DuplicateBinding)
            => /\ Scope_get(TopScope', Unwrap(frame.identifier))
                      = Scope_get(TopScope, Unwrap(frame.identifier))
               /\ Scope_size(TopScope') = Scope_size(TopScope)
               /\ TopScope' = TopScope ]_vars


TargetLoops ==
    {"build_outputs", "build_implicit_outputs", "build_inputs",
     "build_implicit_inputs", "build_order_inputs", "default_targets"}

\* the order of the places that parse can reach from one another without
\* moving the cursor: a target loop or a value before the place after it, the
\* end of an indented block before the declaration it ends, and that before
\* the top-level loop; the call of parse comes before them all
PlaceRank(p) ==
    IF p = "start" THEN 4
    ELSE IF p \in TargetLoops \cup {"binding_value", "top_value"} THEN 3
    ELSE IF p = "scope" THEN 2
    ELSE IF p = "scope_done" THEN 1
    ELSE 0

\* C35: every parse returns; and every step of it returns, or moves the cursor
\* forward by at least one byte within the input, or leaves the cursor where
\* it is and leaves the loop it is in for a place further on, so that no turn
\* of the top-level loop, of a target-list loop or of the indented-binding
\* loop comes back to where it was with the cursor unmoved.
C35_Terminates ==
    /\ <>(pc = "done")
    /\ [][ /\ current'.end <= Len(input)
           /\ \/ pc' = "done"
              \/ current'.end > current.end
              \/ current'.end = current.end /\ PlaceRank(pc') < PlaceRank(pc) ]_vars

\* a parse that returned after a comment, turns of every target loop, an
\* indented block and two turns of the top-level loop
C35_Witness ==
    /\ pc = "done"
    /\ result = Ok
    /\ Len(declarations) = 2
    /\ declarations[1].kind = "Build"
    /\ Len(declarations[1].implicit_outputs) = 1
    /\ Len(declarations[1].implicit_inputs) = 1
    /\ Len(declarations[1].order_inputs) = 1
    /\ Scope_size(Scopes_get_scope(scopes, declarations[1].scope)) = 1
    /\ declarations[2].kind = "Default"

\* the value of the binding parse_binding has just returned
LastBinding(f) == f.bindings[Len(f.bindings)].value

\* C36: the chained lookup from the scope of a rule, build or pool reads the
\* top scope as it is when the lookup is made: after every step, and so after
\* a successful parse, a name the declaration's scope does not bind resolves to
\* what the top scope binds it to then, also when that top-level binding was
\* pushed after the scope was created.  The scope's own bindings never change
\* once the scope exists, and each of them holds its value expanded against
\* the top scope as it was when the binding's line was parsed.
C36_LateTopBinding ==
    /\ [](\A c \in ChildIds, n \in Symbols :
              ~Bound(c, n) => Scopes_get(scopes, c, n) = Scope_get(TopScope, n))
    /\ [][\A c \in ChildIds :
              /\ Scopes_get_scope(scopes', c) = ScopeAt(c)
              /\ \A n \in Symbols :
                     (~Bound(c, n) /\ ~Bound(scopes.top, n)
                         /\ n \in DOMAIN TopScope'.bindings)
                     => /\ Scopes_get(scopes, c, n) = None
                        /\ Scopes_get(scopes', c, n) = Some(TopScope'.bindings[n])]_vars
    /\ [][(pc = "binding_newline" /\ pc' = "scope")
              => LastBinding(frame') = Scope_evaluate(TopScope, Unwrap(frame.value))]_vars

\* a successful parse after which a rule's binding holds the empty expansion
\* of a variable that was unbound at the rule, while the chained lookup from
\* the rule's scope gives that variable the value bound at top level later
C36_Witness ==
    /\ pc = "done"
    /\ result = Ok
    /\ \E c \in ChildIds, n, d \in Symbols :
           /\ Bound(c, n) /\ ScopeAt(c).bindings[n] = <<>>
           /\ ~Bound(c, d)
           /\ Scopes_get(scopes, c, d) = Some(<<"2", "3">>)

\* the variants of ParseError
Taxonomy ==
    {"LexError", "AstError", "MissingNewline", "UnexpectedToken", "Expected",
     "UnexpectedEof", "InvalidValue", "PoolDepthInvalid"}

\* the variant of the error a call of parse returned
VariantOf(res) == IF res.status = "Err" THEN res.error.variant ELSE "none"

\* the variants the calls that have returned failed with
Returned == {VariantOf(calls[i]) : i \in DOMAIN calls} \cap Taxonomy

\* C37 as amended: over the files of the test, parse returns LexError,
\* AstError, UnexpectedToken, Expected, UnexpectedEof and PoolDepthInvalid
\* each for at least one file, and returns MissingNewline and InvalidValue for
\* none: no call ever holds one of these two as its result.
C37_ReturnedVariants ==
    /\ VariantOf(result) \notin {"MissingNewline", "InvalidValue"}
    /\ pc = "reported" => Returned = Taxonomy \ {"MissingNewline", "InvalidValue"}

\* C37 as claimed: once the test has parsed every file, every variant of
\* ParseError has been returned by some call, MissingNewline and InvalidValue
\* among them.
C37_EveryVariantReturned ==
    pc = "reported" => /\ Taxonomy \subseteq Returned
                       /\ "MissingNewline" \in Returned
                       /\ "InvalidValue" \in Returned

\* the test is over and the six other variants have each been returned, by
\* calls on a binding with an empty value and on a line cut short among them
C37_Witness ==
    /\ pc = "reported"
    /\ Cardinality(Returned) = 6
    /\ \E i, j \in DOMAIN calls :
           /\ calls[i] = Err(PE_UnexpectedEof)
           /\ calls[j] = Err(PE_PoolDepthInvalid)

====
